---- MODULE Spec2Model ----
(***************************************************************************)
(* A model of the veraison/ear attestation-result library: the TrustClaim  *)
(* tier classification, the AttestationResult / Appraisal value objects,   *)
(* their validation, the reflection driven map conversion (structAsMap,    *)
(* populateStructFromMap) and the JSON / JWT / CBOR / CWT entry points.    *)
(*                                                                         *)
(* Conventions                                                             *)
(*  - a Go pointer field is a set with at most one element: {} is nil,     *)
(*    {v} points to v;                                                     *)
(*  - a Go interface{} value is a record [k, s, n, f, m]: k is the dynamic *)
(*    type, s a string payload, n an integer payload, f the fractional     *)
(*    part of a float64 in tenths, m the entries of a map;                 *)
(*  - an error is a string, "" is the nil error, and a panic is reported   *)
(*    in a separate boolean.                                               *)
(***************************************************************************)
EXTENDS Integers, Sequences, FiniteSets, TLC

VARIABLES
    claim,  \* the TrustClaim the TrustClaim operations are applied to
    ar,     \* the AttestationResult the caller holds
    wire,   \* the bytes handed to a decoding entry point, or the value handed
            \* to a conversion
    last    \* the last call made and what it returned

vars == <<claim, ar, wire, last>>

(***************************************************************************)
(* TrustTier and TrustClaim                                                *)
(***************************************************************************)
TrustTierNone == 0
TrustTierAffirming == 2
TrustTierWarning == 32
TrustTierContraindicated == 96

MinInt8 == -128
MaxInt8 == 127
Int8 == MinInt8..MaxInt8

NoClaim == 0

IsNone(o) == o >= -1 /\ o <= 1

IsAffirming_UpperOffByOne(o) == (o >= -32 /\ o <= -2) \/ (o >= 2 /\ o <= 32)
IsAffirming(o) == (o >= -32 /\ o <= -2) \/ (o >= 2 /\ o <= 31)

IsWarning(o) == (o >= -96 /\ o <= -33) \/ (o >= 32 /\ o <= 95)

IsContraindicated_Gap(o) == (o <= -97) \/ (o > 96)
IsContraindicated(o) == (o <= -97) \/ (o >= 96)

\* GetTier: the if/else-if chain; the final else panics.
GetTier(o) ==
    IF IsNone(o) THEN [panic |-> FALSE, tier |-> TrustTierNone]
    ELSE IF IsAffirming(o) THEN [panic |-> FALSE, tier |-> TrustTierAffirming]
    ELSE IF IsWarning(o) THEN [panic |-> FALSE, tier |-> TrustTierWarning]
    ELSE IF IsContraindicated(o) THEN [panic |-> FALSE, tier |-> TrustTierContraindicated]
    ELSE [panic |-> TRUE, tier |-> TrustTierNone]

(***************************************************************************)
(* Strings, sequences and map iteration                                    *)
(***************************************************************************)
\* strings.Join
RECURSIVE Join(_, _)
Join(parts, sep) ==
    IF Len(parts) = 0 THEN ""
    ELSE IF Len(parts) = 1 THEN parts[1]
    ELSE parts[1] \o sep \o Join(Tail(parts), sep)

Range(f) == {f[i] : i \in DOMAIN f}

\* every order a Go map with key set S can be ranged over
Perms(S) == {p \in [1..Cardinality(S) -> S] : Range(p) = S}

\* the keys of a map in the order `ord` visits them
KeysInOrder(keys, ord) == SelectSeq(ord, LAMBDA k : k \in keys)

(***************************************************************************)
(* interface{} values                                                      *)
(***************************************************************************)
V(k, s, n, f, m) == [k |-> k, s |-> s, n |-> n, f |-> f, m |-> m]
NilV == V("nil", "", 0, 0, <<>>)
StrV(s) == V("string", s, 0, 0, <<>>)
BoolV(b) == V("bool", "", IF b THEN 1 ELSE 0, 0, <<>>)
FloatV(n, f) == V("float64", "", n, f, <<>>)     \* n + f/10
Int64V(n) == V("int64", "", n, 0, <<>>)
MapV(m) == V("map", "", 0, 0, m)                 \* map[string]interface{}
ArrV == V("array", "", 0, 0, <<>>)               \* []interface{}
TierV(t) == V("TrustTier", "", t, 0, <<>>)
ClaimV(c) == V("TrustClaim", "", c, 0, <<>>)
B64UrlV(b) == V("B64Url", b, 0, 0, <<>>)
NonceV(b) == V("Nonce", b, 0, 0, <<>>)
StructV(t, m) == V(t, "", 0, 0, m)               \* a struct held in an interface{}
EmptyMap == <<>>

\* the map m with key k set to v
Put(m, k, v) == [x \in (DOMAIN m) \cup {k} |-> IF x = k THEN v ELSE m[x]]

(***************************************************************************)
(* The value objects                                                       *)
(***************************************************************************)
EatProfile == "tag:github.com,2023:veraison/ear"
EatTrusteeProfile == "tag:github.com,2024:confidential-containers/Trustee"

TrustVectorKeys == <<"instance-identity", "configuration", "executables",
                     "file-system", "hardware", "runtime-opaque",
                     "storage-opaque", "sourced-data">>

\* TrustVector{}: every claim is NoClaim
ZeroTrustVector == [k \in Range(TrustVectorKeys) |-> NoClaim]

ZeroAppraisalExtensions ==
    [VeraisonAnnotatedEvidence |-> {}, VeraisonPolicyClaims |-> {},
     VeraisonKeyAttestation |-> {}]

ZeroAppraisal ==
    [Status |-> {}, TrustVector |-> {}, AppraisalPolicyID |-> {},
     AppraisalExtensions |-> ZeroAppraisalExtensions]

ZeroVerifierIdentity == [Build |-> {}, Developer |-> {}]

ZeroVeraisonTeeInfo == [TeeName |-> {}, EvidenceID |-> {}, Evidence |-> {}]

ZeroAttestationResult ==
    [Profile |-> {}, VerifierID |-> {}, RawEvidence |-> {}, IssuedAt |-> {},
     Nonce |-> {}, Submods |-> EmptyMap,
     AttestationResultExtensions |-> [VeraisonTeeInfo |-> {}]]

Deref(p) == CHOOSE v \in p : TRUE

(***************************************************************************)
(* Struct types as reflection sees them                                    *)
(***************************************************************************)
Ptr(e) == [kind |-> "ptr", elem |-> e]
MapOfPtr(e) == [kind |-> "map", elem |-> e]
Struct(e) == [kind |-> "struct", elem |-> e]
Plain(e) == [kind |-> "plain", elem |-> e]
SliceOfPtr(e) == [kind |-> "slice", elem |-> e]
Field(name, tag, type) == [name |-> name, tag |-> tag, type |-> type]

\* The fields of each struct in declaration order; tag is the json tag split
\* at the commas, <<>> when the field has no json tag.
StructFields(T) ==
    CASE T = "AttestationResult" ->
           << Field("Profile", <<"eat_profile">>, Ptr("string")),
              Field("VerifierID", <<"ear.verifier-id">>, Ptr("VerifierIdentity")),
              Field("RawEvidence", <<"ear.raw-evidence", "omitempty">>, Ptr("B64Url")),
              Field("IssuedAt", <<"iat">>, Ptr("int64")),
              Field("Nonce", <<"eat_nonce", "omitempty">>, Ptr("Nonce")),
              Field("Submods", <<"submods">>, MapOfPtr("Appraisal")),
              Field("AttestationResultExtensions", <<>>,
                    Struct("AttestationResultExtensions")) >>
      [] T = "AttestationResultExtensions" ->
           << Field("VeraisonTeeInfo", <<"ear.veraison.tee-info", "omitempty">>,
                    Ptr("VeraisonTeeInfo")) >>
      [] T = "Appraisal" ->
           << Field("Status", <<"ear.status">>, Ptr("TrustTier")),
              Field("TrustVector", <<"ear.trustworthiness-vector", "omitempty">>,
                    Ptr("TrustVector")),
              Field("AppraisalPolicyID", <<"ear.appraisal-policy-id", "omitempty">>,
                    Ptr("string")),
              Field("AppraisalExtensions", <<>>, Struct("AppraisalExtensions")) >>
      [] T = "AppraisalExtensions" ->
           << Field("VeraisonAnnotatedEvidence",
                    <<"ear.veraison.annotated-evidence", "omitempty">>,
                    Ptr("map[string]interface{}")),
              Field("VeraisonPolicyClaims",
                    <<"ear.veraison.policy-claims", "omitempty">>,
                    Ptr("map[string]interface{}")),
              Field("VeraisonKeyAttestation",
                    <<"ear.veraison.key-attestation", "omitempty">>,
                    Ptr("map[string]interface{}")) >>
      [] T = "VerifierIdentity" ->
           << Field("Build", <<"build">>, Ptr("string")),
              Field("Developer", <<"developer">>, Ptr("string")) >>
      [] T = "VeraisonTeeInfo" ->
           << Field("TeeName", <<"tee-name">>, Ptr("string")),
              Field("EvidenceID", <<"evidence-id">>, Ptr("string")),
              Field("Evidence", <<"evidence", "omitempty">>, Ptr("bytes")) >>
      \* the structs of Test_structAsMap; FieldSeven has a cbor tag only
      [] T = "MyStruct" ->
           << Field("FieldOne", <<"field-one">>, Ptr("string")),
              Field("FieldTwo", <<"field-two">>, Plain("string")),
              Field("FieldThree", <<"field-three", "omitempty">>, Ptr("int")),
              Field("FieldFour", <<"field-four", "omitempty">>, Ptr("myMapable")),
              Field("FieldFive", <<"field-five">>, Plain("myMapable")),
              Field("FieldSix", <<>>, Plain("string")),
              Field("FieldSeven", <<>>, Plain("string")),
              Field("FieldEight", <<"field-eight", "omitempty">>,
                    MapOfPtr("myMapable")),
              Field("FieldNine", <<"field-nine", "omitempty">>,
                    SliceOfPtr("myMapable")),
              Field("MyEmbedded", <<>>, Struct("MyEmbedded")) >>
      [] T = "MyEmbedded" ->
           << Field("FieldOne", <<"embedded-field-one", "omitempty">>,
                    Ptr("string")) >>
      [] T = "myMapable" ->
           << Field("Key", <<"key">>, Plain("string")) >>

StructTypes == {"AttestationResult", "AttestationResultExtensions", "Appraisal",
                "AppraisalExtensions", "VerifierIdentity", "VeraisonTeeInfo",
                "MyStruct", "MyEmbedded", "myMapable"}

\* parseTag: no tag or "-" is not a claim; "omitempty" makes it optional
parseTag_AlwaysMandatory(tag) ==
    IF Len(tag) = 0 \/ tag = <<"-">>
    THEN [ok |-> FALSE, Name |-> "", IsMandatory |-> FALSE]
    ELSE [ok |-> TRUE, Name |-> tag[1], IsMandatory |-> TRUE]
parseTag(tag) ==
    IF Len(tag) = 0 \/ tag = <<"-">>
    THEN [ok |-> FALSE, Name |-> "", IsMandatory |-> FALSE]
    ELSE [ok |-> TRUE, Name |-> tag[1],
          IsMandatory |-> ~(\E i \in 2..Len(tag) : tag[i] = "omitempty")]

QuoteName(name) == "'" \o name \o "'"

\* the types whose method set has AsMap()
HasAsMap(e) == e \in {"TrustVector", "Appraisal", "AttestationResult", "myMapable"}

\* TrustVector.AsMap
TrustVector_AsMap(o) == [k \in Range(TrustVectorKeys) |-> o[k]]

\* the map an AsMap method returns, its values as Interface() gives them
AsMapEntries(e, o) ==
    IF e = "myMapable" THEN [k \in {o.Key} |-> V("int", "", 1, 0, <<>>)]
    ELSE [k \in DOMAIN TrustVector_AsMap(o) |-> ClaimV(TrustVector_AsMap(o)[k])]

\* the value of a field once a pointer that is not nil is dereferenced
Elem(fieldType, fieldVal) ==
    IF fieldType.kind = "ptr" THEN Deref(fieldVal) ELSE fieldVal

\* reflect.Value.Interface() of a value of type e
RECURSIVE Interface(_, _)
Interface(e, v) ==
    CASE e = "string" -> StrV(v)
      [] e = "int64" -> Int64V(v)
      [] e = "int" -> V("int", "", v, 0, <<>>)
      [] e = "TrustTier" -> TierV(v)
      [] e = "TrustClaim" -> ClaimV(v)
      [] e = "B64Url" -> B64UrlV(v)
      [] e = "Nonce" -> NonceV(v)
      [] e = "bytes" -> V("bytes", v, 0, 0, <<>>)
      [] e = "map[string]interface{}" -> MapV(v)
      [] e \in StructTypes ->
           StructV(e, [n \in DOMAIN v |->
                         LET fs == SelectSeq(StructFields(e), LAMBDA f : f.name = n)
                         IN  IF fs[1].type.kind # "ptr"
                             THEN Interface(fs[1].type.elem, v[n])
                             ELSE IF v[n] = {} THEN NilV
                             ELSE Interface(fs[1].type.elem, Deref(v[n]))])

\* doStructAsMap from field i on; m is the map being filled
RECURSIVE doStructAsMapFrom(_, _, _, _)
doStructAsMapFrom(T, val, m, i) ==
    IF i > Len(StructFields(T)) THEN m
    ELSE
      LET typeField == StructFields(T)[i]
          fieldType == typeField.type
          fieldVal == val[typeField.name]
          tagSpec == parseTag(typeField.tag)
          next ==
            IF ~tagSpec.ok
            THEN IF fieldType.kind = "struct" /\ typeField.name = fieldType.elem
                 THEN doStructAsMapFrom(fieldType.elem, fieldVal, m, 1)  \* embedded
                 ELSE m
            ELSE IF fieldType.kind = "ptr" /\ fieldVal = {}
            THEN IF tagSpec.IsMandatory THEN Put(m, tagSpec.Name, NilV) ELSE m
            ELSE IF fieldType.kind = "map" /\ fieldType.elem \in StructTypes
            THEN Put(m, tagSpec.Name,
                     MapV([k \in DOMAIN fieldVal |->
                             MapV(doStructAsMapFrom(fieldType.elem, fieldVal[k],
                                                    EmptyMap, 1))]))
            ELSE IF fieldType.kind = "slice" /\ fieldType.elem \in StructTypes
            THEN Put(m, tagSpec.Name,
                     V("array", "", 0, 0,
                       [k \in DOMAIN fieldVal |->
                           MapV(doStructAsMapFrom(fieldType.elem, fieldVal[k],
                                                  EmptyMap, 1))]))
            ELSE IF HasAsMap(fieldType.elem)
            THEN Put(m, tagSpec.Name,
                     MapV(AsMapEntries(fieldType.elem, Elem(fieldType, fieldVal))))
            ELSE Put(m, tagSpec.Name,
                     Interface(fieldType.elem, Elem(fieldType, fieldVal)))
      IN  doStructAsMapFrom(T, val, next, i + 1)

doStructAsMap(T, val, m) == doStructAsMapFrom(T, val, m, 1)

\* structAsMap(s, "json") for a struct of type T (never an error for a struct)
structAsMap(T, s) ==
    IF T \notin StructTypes
    THEN [m |-> EmptyMap, err |-> "invalid value: must be a Struct or a *Struct"]
    ELSE [m |-> doStructAsMap(T, s, EmptyMap), err |-> ""]

\* AttestationResult.AsMap: panics when structAsMap fails
AttestationResult_AsMap(o) ==
    LET r == structAsMap("AttestationResult", o)
    IN  [m |-> r.m, panic |-> r.err # ""]

(***************************************************************************)
(* JSON encoding of the values AsMap yields                                *)
(***************************************************************************)
TrustTierToString ==
    [t \in {TrustTierNone, TrustTierAffirming, TrustTierWarning,
            TrustTierContraindicated} |->
        CASE t = TrustTierNone -> "none"
          [] t = TrustTierAffirming -> "affirming"
          [] t = TrustTierWarning -> "warning"
          [] t = TrustTierContraindicated -> "contraindicated"]

\* TrustTier.MarshalJSON
TrustTier_MarshalJSON_NoCheck(o) ==
    IF o \in DOMAIN TrustTierToString
    THEN [err |-> "", j |-> StrV(TrustTierToString[o])]
    ELSE [err |-> "", j |-> StrV("none")]
TrustTier_MarshalJSON(o) ==
    IF o \in DOMAIN TrustTierToString
    THEN [err |-> "", j |-> StrV(TrustTierToString[o])]
    ELSE [err |-> "unknown trust tier '" \o ToString(o) \o "'", j |-> NilV]

\* The byte strings of the model with their base64 text: unpadded URL
\* alphabet (base64.RawURLEncoding) and padded standard alphabet
\* (base64.StdEncoding).
ByteStrings ==
    {"", "ev", "evidence", "I didn't do it", "1337", "0123456789abcdef"}
RawURLEncoding ==
    [b \in ByteStrings |->
        CASE b = "" -> ""
          [] b = "ev" -> "ZXY"
          [] b = "evidence" -> "ZXZpZGVuY2U"
          [] b = "I didn't do it" -> "SSBkaWRuJ3QgZG8gaXQ"
          [] b = "1337" -> "MTMzNw"
          [] b = "0123456789abcdef" -> "MDEyMzQ1Njc4OWFiY2RlZg"]
StdEncoding ==
    [b \in ByteStrings |->
        CASE b = "" -> ""
          [] b = "ev" -> "ZXY="
          [] b = "evidence" -> "ZXZpZGVuY2U="
          [] b = "I didn't do it" -> "SSBkaWRuJ3QgZG8gaXQ="
          [] b = "1337" -> "MTMzNw=="
          [] b = "0123456789abcdef" -> "MDEyMzQ1Njc4OWFiY2RlZg=="]

\* DecodeString of an encoding: the bytes, or an error for any other text
\* of the model ("ZXY=" is not unpadded, "ZXY" is not padded, "!!" is neither)
DecodeString(enc, text) ==
    IF \E b \in ByteStrings : enc[b] = text
    THEN [err |-> "", b |-> CHOOSE b \in ByteStrings : enc[b] = text]
    ELSE [err |-> "illegal base64 data", b |-> ""]

\* B64Url.MarshalJSON
B64Url_MarshalJSON(o) == StrV(RawURLEncoding[o])

\* the strings used as map keys, in the order encoding/json sorts them
SortedKeys(S) ==
    LET n == Cardinality(S)
        IsSorted(q) ==
            \A i \in 1..n : \A j \in 1..n : i < j =>
                \* both are submodule names "s<i>", the only keys that vary
                \E a \in 1..9 : \E b \in 1..9 :
                    a < b /\ q[i] = "s" \o ToString(a) /\ q[j] = "s" \o ToString(b)
    IN  IF n <= 1 THEN IF n = 0 THEN <<>> ELSE <<CHOOSE k \in S : TRUE>>
        ELSE CHOOSE q \in Perms(S) : IsSorted(q)

\* json.Marshal of an interface{} value: the value json.Unmarshal reads back
\* from the text (nil, bool, float64, string, map), or the first error;
\* enc[n] is json.Marshal of the field n of a struct
RECURSIVE jsonMarshal(_)
jsonMarshalStruct(v, enc) ==
    LET fs == StructFields(v.k)
        kept == SelectSeq(fs, LAMBDA f :
                    ~(v.m[f.name].k = "nil" /\ ~parseTag(f.tag).IsMandatory))
        bad == SelectSeq(kept, LAMBDA f : enc[f.name].err # "")
    IN  IF Len(bad) > 0 THEN [err |-> enc[bad[1].name].err, j |-> NilV]
        ELSE [err |-> "",
              j |-> MapV([n \in {parseTag(kept[i].tag).Name : i \in 1..Len(kept)} |->
                            LET i == CHOOSE i \in 1..Len(kept) :
                                         parseTag(kept[i].tag).Name = n
                            IN  enc[kept[i].name].j])]
jsonMarshal(v) ==
    CASE v.k \in {"nil", "bool", "string", "float64", "array"} -> [err |-> "", j |-> v]
      [] v.k \in {"int64", "int", "TrustClaim"} -> [err |-> "", j |-> FloatV(v.n, 0)]
      [] v.k = "TrustTier" -> TrustTier_MarshalJSON(v.n)
      [] v.k = "B64Url" -> [err |-> "", j |-> B64Url_MarshalJSON(v.s)]
      [] v.k = "bytes" -> [err |-> "", j |-> StrV(StdEncoding[v.s])]
      [] v.k = "Nonce" -> [err |-> "", j |-> StrV(StdEncoding[v.s])]
      [] v.k \in StructTypes ->
           jsonMarshalStruct(v, [n \in DOMAIN v.m |-> jsonMarshal(v.m[n])])
      [] v.k = "map" ->
           LET enc == [k \in DOMAIN v.m |-> jsonMarshal(v.m[k])]
               bad == {k \in DOMAIN v.m : enc[k].err # ""}
           IN  IF bad # {}
               THEN [err |-> enc[SortedKeys(bad)[1]].err, j |-> NilV]
               ELSE [err |-> "", j |-> MapV([k \in DOMAIN v.m |-> enc[k].j])]

(***************************************************************************)
(* Validation                                                              *)
(***************************************************************************)
MinNonceLen == 10
MaxNonceLen == 74

\* the nonce check of validate(): the error text, "" when the nonce is valid
Nonce_Validate_OffByOne(n) ==
    IF Len(n) > MaxNonceLen \/ Len(n) <= MinNonceLen
    THEN ToString(Len(n)) \o " bytes" ELSE ""
Nonce_Validate(n) ==
    IF Len(n) > MaxNonceLen \/ Len(n) < MinNonceLen
    THEN ToString(Len(n)) \o " bytes" ELSE ""

\* Appraisal.validate
Appraisal_validate_Lax(o) == ""
Appraisal_validate(o) ==
    IF o.Status = {} THEN "missing mandatory 'ear.status'" ELSE ""

\* AttestationResult.validate: the two lists it accumulates; ord is the order
\* in which the range over o.Submods visits the submodules
validateLists_FailFast(o, ord) ==
    IF o.Profile = {} THEN [missing |-> <<"'eat_profile'">>, invalid |-> <<>>]
    ELSE IF o.IssuedAt = {} THEN [missing |-> <<"'iat'">>, invalid |-> <<>>]
    ELSE IF o.VerifierID = {} THEN [missing |-> <<"'verifier-id'">>, invalid |-> <<>>]
    ELSE IF DOMAIN o.Submods = {}
    THEN [missing |-> <<"'submods' (at least one appraisal must be present)">>,
          invalid |-> <<>>]
    ELSE [missing |-> <<>>,
          invalid |->
            (IF Deref(o.Profile) # EatProfile /\ Deref(o.Profile) # EatTrusteeProfile
             THEN <<"eat_profile (" \o Deref(o.Profile) \o ")">> ELSE <<>>)]
validateLists_OneProfile(o, ord) ==
    [missing |-> (IF o.Profile = {} THEN <<"'eat_profile'">> ELSE <<>>)
                 \o (IF o.IssuedAt = {} THEN <<"'iat'">> ELSE <<>>)
                 \o (IF o.VerifierID = {} THEN <<"'verifier-id'">> ELSE <<>>)
                 \o (IF DOMAIN o.Submods = {}
                     THEN <<"'submods' (at least one appraisal must be present)">>
                     ELSE <<>>),
     invalid |-> (IF o.Profile # {} /\ Deref(o.Profile) # EatProfile
                  THEN <<"eat_profile (" \o Deref(o.Profile) \o ")">> ELSE <<>>)
                 \o (IF o.Nonce # {} /\ Nonce_Validate(Deref(o.Nonce)) # ""
                     THEN <<"eat_nonce (" \o Nonce_Validate(Deref(o.Nonce)) \o ")">>
                     ELSE <<>>)
                 \o (LET names == KeysInOrder(DOMAIN o.Submods, ord)
                         bad == SelectSeq(names, LAMBDA n :
                                    Appraisal_validate(o.Submods[n]) # "")
                     IN  [i \in 1..Len(bad) |->
                            "submods[" \o bad[i] \o "]: "
                              \o Appraisal_validate(o.Submods[bad[i]])])]
validateLists(o, ord) ==
    LET m1 == IF o.Profile = {} THEN <<"'eat_profile'">> ELSE <<>>
        i1 == IF o.Profile # {} /\ Deref(o.Profile) # EatProfile
                 /\ Deref(o.Profile) # EatTrusteeProfile
              THEN <<"eat_profile (" \o Deref(o.Profile) \o ")">> ELSE <<>>
        m2 == IF o.IssuedAt = {} THEN m1 \o <<"'iat'">> ELSE m1
        m3 == IF o.VerifierID = {} THEN m2 \o <<"'verifier-id'">> ELSE m2
        i2 == IF o.Nonce # {} /\ Nonce_Validate(Deref(o.Nonce)) # ""
              THEN i1 \o <<"eat_nonce (" \o Nonce_Validate(Deref(o.Nonce)) \o ")">>
              ELSE i1
        names == KeysInOrder(DOMAIN o.Submods, ord)
        bad == SelectSeq(names, LAMBDA n : Appraisal_validate(o.Submods[n]) # "")
        m4 == IF Len(names) = 0
              THEN m3 \o <<"'submods' (at least one appraisal must be present)">>
              ELSE m3
        i3 == i2 \o [i \in 1..Len(bad) |->
                       "submods[" \o bad[i] \o "]: "
                         \o Appraisal_validate(o.Submods[bad[i]])]
    IN  [missing |-> m4, invalid |-> i3]

\* the summary validate() builds from the two lists
validateSummary(l) ==
    (IF Len(l.missing) # 0
     THEN <<"missing mandatory " \o Join(l.missing, ", ")>> ELSE <<>>)
    \o (IF Len(l.invalid) # 0
        THEN <<"invalid value(s) for " \o Join(l.invalid, ", ")>> ELSE <<>>)

\* AttestationResult.validate: "" is the nil error
validate_Never(o, ord) == ""
validate(o, ord) ==
    LET l == validateLists(o, ord)
    IN  IF Len(l.missing) = 0 /\ Len(l.invalid) = 0 THEN ""
        ELSE Join(validateSummary(l), "; ")

(***************************************************************************)
(* Encoding entry points                                                   *)
(***************************************************************************)
\* Signature algorithms and keys: a key signs under the algorithm of its
\* family only (the contract of jwt.Sign, cose.NewSigner and cose.Sign1).
Algs == {"ES256", "EdDSA"}
Keys == {"ec-p256", "ed25519"}
KeyFits(alg, key) ==
    \/ alg = "ES256" /\ key = "ec-p256"
    \/ alg = "EdDSA" /\ key = "ed25519"

NoBytes == {}
Encoded(err, out) == [panic |-> FALSE, err |-> err, out |-> out]

\* AttestationResult.MarshalJSON
MarshalJSON_NoValidate(o, ord) ==
    LET j == jsonMarshal(MapV(AttestationResult_AsMap(o).m))
    IN  IF j.err # "" THEN Encoded(j.err, NoBytes) ELSE Encoded("", {[format |-> "JSON", doc |-> j.j, indent |-> FALSE]})
MarshalJSON(o, ord) ==
    IF validate(o, ord) # "" THEN Encoded(validate(o, ord), NoBytes)
    ELSE LET am == AttestationResult_AsMap(o)
             j == jsonMarshal(MapV(am.m))
         IN  IF am.panic THEN [panic |-> TRUE, err |-> "", out |-> NoBytes]
             ELSE IF j.err # "" THEN Encoded(j.err, NoBytes)
             ELSE Encoded("", {[format |-> "JSON", doc |-> j.j, indent |-> FALSE]})

\* AttestationResult.MarshalJSONIndent: the same document, indented
MarshalJSONIndent(o, ord) ==
    IF validate(o, ord) # "" THEN Encoded(validate(o, ord), NoBytes)
    ELSE LET am == AttestationResult_AsMap(o)
             j == jsonMarshal(MapV(am.m))
         IN  IF am.panic THEN [panic |-> TRUE, err |-> "", out |-> NoBytes]
             ELSE IF j.err # "" THEN Encoded(j.err, NoBytes)
             ELSE Encoded("", {[format |-> "JSON", doc |-> j.j, indent |-> TRUE]})

\* AttestationResult.Sign: the JWT carries the claims of AsMap as its payload
Sign(o, alg, key, ord) ==
    IF validate(o, ord) # "" THEN Encoded(validate(o, ord), NoBytes)
    ELSE LET am == AttestationResult_AsMap(o)
             j == jsonMarshal(MapV(am.m))
         IN  IF am.panic THEN [panic |-> TRUE, err |-> "", out |-> NoBytes]
             ELSE IF j.err # "" THEN Encoded(j.err, NoBytes)
             ELSE IF ~KeyFits(alg, key)
             THEN Encoded("failed to sign token", NoBytes)
             ELSE Encoded("", {[format |-> "JWT", alg |-> alg, signer |-> key,
                                 payload |-> j.j, intact |-> TRUE]})

\* AttestationResult.ToCBOR: cbor.Marshal writes the fields that are set
ToCBOR(o, ord) ==
    IF validate(o, ord) # "" THEN Encoded(validate(o, ord), NoBytes)
    ELSE Encoded("", {[format |-> "CBOR", claims |-> o]})

\* AttestationResult.SignCWT: the protected header always names ES256, and
\* cose.Sign1 refuses a signer of another algorithm
SignCWT(o, alg, key, ord) ==
    IF validate(o, ord) # "" THEN Encoded(validate(o, ord), NoBytes)
    ELSE IF ~KeyFits(alg, key) THEN Encoded("algorithm mismatch", NoBytes)
    ELSE IF ToCBOR(o, ord).err # "" THEN Encoded(ToCBOR(o, ord).err, NoBytes)
    ELSE IF alg # "ES256" THEN Encoded("algorithm mismatch", NoBytes)
    ELSE Encoded("", {[format |-> "CWT", alg |-> "ES256", signer |-> key,
                        payload |-> Deref(ToCBOR(o, ord).out), intact |-> TRUE]})

(***************************************************************************)
(* Parsers                                                                 *)
(***************************************************************************)
\* what a parser returns: the error text ("" for nil), and on success the
\* Go type of the value and the value as the field will hold it
ParseError(msg) == [err |-> msg, type |-> Ptr("none"), val |-> {}]
Parsed(type, val) == [err |-> "", type |-> type, val |-> val]

\* stringPtrParser
stringPtrParser(iface) ==
    IF iface.k = "string" THEN Parsed(Ptr("string"), {iface.s})
    ELSE ParseError("not a string")

\* stringMapPtrParser
stringMapPtrParser(iface) ==
    IF iface.k = "map" THEN Parsed(Ptr("map[string]interface{}"), {iface.m})
    ELSE ParseError("not a map[string]interface{}")

\* int64PtrParser: int64(t) of a float64 drops the fraction
int64PtrParser_RejectFraction(iface) ==
    IF iface.k \in {"float64", "int", "int64"} /\ iface.f = 0
    THEN Parsed(Ptr("int64"), {iface.n})
    ELSE ParseError("not an int64")
int64PtrParser(iface) ==
    IF iface.k \in {"float64", "int", "int64"} THEN Parsed(Ptr("int64"), {iface.n})
    ELSE ParseError("not an int64")

\* b64urlBytesPtrParser
b64urlBytesPtrParser(iface) ==
    IF iface.k # "string" THEN ParseError("not a base64 string")
    ELSE LET d == DecodeString(RawURLEncoding, iface.s)
         IN  IF d.err # "" THEN ParseError(d.err)
             ELSE Parsed(Ptr("B64Url"), {d.b})

\* the integer types of the type switches of ToTrustTier and ToTrustClaim; int
\* is taken as 64 bits wide, as the comparisons with math.MaxInt64 assume.
\* A uint or uint64 above math.MaxInt64 is held by its decimal text.
IntKinds == {"int", "int8", "int16", "int32", "int64",
             "uint8", "uint16", "uint32", "uint", "uint64"}
IntV(k, n) == V(k, "", n, 0, <<>>)
HugeUintV(k) == V(k, "18446744073709551615", 0, 1, <<>>)
IsHuge(v) == v.k \in {"uint", "uint64"} /\ v.f = 1
NumberV(s) == V("json.Number", s, 0, 0, <<>>)

\* strconv.Atoi on the decimal strings of a range wide enough for the model
AtoiRange == (4 * MinInt8)..(4 * MaxInt8)
Atoi(s) ==
    LET c == {n \in AtoiRange : ToString(n) = s}
    IN  [ok |-> c # {}, i |-> IF c = {} THEN 0 ELSE CHOOSE n \in c : TRUE]

StringToTrustTier ==
    [s \in {"none", "affirming", "warning", "contraindicated"} |->
        CASE s = "none" -> TrustTierNone
          [] s = "affirming" -> TrustTierAffirming
          [] s = "warning" -> TrustTierWarning
          [] s = "contraindicated" -> TrustTierContraindicated]
IntToTrustTier ==
    [i \in {0, 2, 32, 96} |->
        CASE i = 0 -> TrustTierNone
          [] i = 2 -> TrustTierAffirming
          [] i = 32 -> TrustTierWarning
          [] i = 96 -> TrustTierContraindicated]

getTrustTierFromInt_Cast(i) == [err |-> "", tier |-> i]
getTrustTierFromInt(i) ==
    IF i \in DOMAIN IntToTrustTier THEN [err |-> "", tier |-> IntToTrustTier[i]]
    ELSE [err |-> "not a valid TrustTier value: " \o ToString(i),
          tier |-> TrustTierNone]

getTrustTierFromString(s) ==
    IF s \in DOMAIN StringToTrustTier
    THEN [err |-> "", tier |-> StringToTrustTier[s]]
    ELSE IF Atoi(s).ok THEN getTrustTierFromInt(Atoi(s).i)
    ELSE [err |-> "not a valid TrustTier name: \"" \o s \o "\"",
          tier |-> TrustTierNone]

\* ToTrustTier: (&tier, err)
ToTrustTier(v) ==
    LET r == CASE v.k \in {"string", "bytes"} -> getTrustTierFromString(v.s)
               [] v.k = "TrustClaim" -> [err |-> "", tier |-> GetTier(v.n).tier]
               [] v.k \in IntKinds ->
                    IF IsHuge(v)
                    THEN [err |-> "not a valid TrustTier value: " \o v.s,
                          tier |-> TrustTierNone]
                    ELSE getTrustTierFromInt(v.n)
               [] v.k = "float64" ->
                    IF v.n \in DOMAIN IntToTrustTier
                    THEN [err |-> "", tier |-> IntToTrustTier[v.n]]
                    ELSE [err |-> "not a valid TrustTier value: " \o ToString(v.n)
                                  \o "." \o ToString(v.f) \o "00000 ("
                                  \o ToString(v.n) \o ")",
                          tier |-> TrustTierNone]
               [] v.k = "json.Number" ->
                    IF ~Atoi(v.s).ok
                    THEN [err |-> "not a valid TrustTier value: " \o v.s
                                  \o ": %!w(<nil>)",
                          tier |-> TrustTierNone]
                    ELSE IF Atoi(v.s).i \in DOMAIN IntToTrustTier
                    THEN [err |-> "", tier |-> IntToTrustTier[Atoi(v.s).i]]
                    ELSE [err |-> "not a valid TrustTier value: " \o v.s
                                  \o " (" \o ToString(Atoi(v.s).i) \o ")",
                          tier |-> TrustTierNone]
               [] OTHER -> [err |-> "cannot convert " \o v.k \o " to TrustTier",
                            tier |-> TrustTierNone]
    IN  [err |-> r.err, type |-> Ptr("TrustTier"), val |-> {r.tier}]

getTrustClaimFromInt_Wrap(i) ==
    [err |-> "", claim |-> ((i - MinInt8) % (2 * (MaxInt8 + 1))) + MinInt8]
getTrustClaimFromInt(i) ==
    IF i > MaxInt8 \/ i < MinInt8
    THEN [err |-> "out of range for TrustClaim: " \o ToString(i), claim |-> NoClaim]
    ELSE [err |-> "", claim |-> i]

\* the tags of the details maps, in the order getTrustClaimFromString lists
\* the maps: configuration, executables, file system, hardware, instance
\* identity, none, runtime opaque, sourced data, storage opaque
Tag(c, t) == [claim |-> c, tag |-> t]
detailsMaps ==
    << {Tag(2, "approved_config"), Tag(3, "safe_config"), Tag(32, "unsafe_config"),
        Tag(96, "unsupportable_config"), Tag(99, "crypto_failed")},
       {Tag(2, "approved_rt"), Tag(3, "approved_boot"), Tag(32, "unsafe_rt"),
        Tag(33, "unrecognized_rt"), Tag(96, "contraindicated_rt"),
        Tag(99, "crypto_failed")},
       {Tag(2, "approved_fs"), Tag(32, "unrecognized_fs"),
        Tag(96, "contraindicated_fs"), Tag(99, "crypto_failed")},
       {Tag(2, "genuine_hw"), Tag(32, "unsafe_hw"), Tag(96, "contraindicated_hw"),
        Tag(97, "unrecognized_hw"), Tag(99, "crypto_failed")},
       {Tag(2, "recognized_instance"), Tag(96, "untrustworthy_instance"),
        Tag(97, "unrecognized_instance"), Tag(99, "crypto_failed")},
       {Tag(-1, "verifier_malfunction"), Tag(0, "no_claim"),
        Tag(1, "unexected_evidence")},
       {Tag(2, "encrypted_rt"), Tag(32, "isolated_rt"), Tag(96, "visible_rt"),
        Tag(99, "crypto_failed")},
       {Tag(2, "trusted_sources"), Tag(32, "untrusted_sources"),
        Tag(96, "contraindicated_sources"), Tag(99, "crypto_failed")},
       {Tag(2, "hw_encrypted_secrets"), Tag(32, "sw_encrypted_secrets"),
        Tag(96, "unencrypted_secrets"), Tag(99, "crypto_failed")} >>

\* strings, a character at a time
Char(s, i) == SubSeq(s, i, i)
IndexIn(c, s) ==
    IF \E i \in 1..Len(s) : Char(s, i) = c
    THEN CHOOSE i \in 1..Len(s) : Char(s, i) = c /\ \A j \in 1..(i - 1) : Char(s, j) # c
    ELSE 0
UpperCase == "ABCDEFGHIJKLMNOPQRSTUVWXYZ"
LowerCase == "abcdefghijklmnopqrstuvwxyz"
IsUpper(c) == IndexIn(c, UpperCase) > 0
IsLower(c) == IndexIn(c, LowerCase) > 0
ToLower(c) == IF IsUpper(c) THEN Char(LowerCase, IndexIn(c, UpperCase)) ELSE c

\* xstrings.ToSnakeCase on letters and single separators: a space, '-' or '_'
\* becomes '_'; an upper-case letter is lowered, after a '_' when it starts a
\* word (it follows a lower-case letter, or it follows an upper-case letter
\* and a lower-case letter follows it); any other character is kept
RECURSIVE snakeFrom(_, _)
snakeFrom(s, i) ==
    IF i > Len(s) THEN ""
    ELSE LET c == Char(s, i)
             startsWord ==
                 /\ i > 1
                 /\ \/ IsLower(Char(s, i - 1))
                    \/ /\ IsUpper(Char(s, i - 1))
                       /\ i < Len(s) /\ IsLower(Char(s, i + 1))
         IN  (IF c \in {" ", "-", "_"} THEN "_"
              ELSE IF IsUpper(c)
              THEN (IF startsWord THEN "_" ELSE "") \o ToLower(c)
              ELSE c)
             \o snakeFrom(s, i + 1)
ToSnakeCase_Identity(s) == s
ToSnakeCase(s) == snakeFrom(s, 1)

\* xstrings.Translate: a character of from becomes the character of to at the
\* same place, the last one of to when to is shorter
RECURSIVE Translate(_, _, _)
Translate(s, from, to) ==
    IF s = "" THEN ""
    ELSE LET c == Char(s, 1)
             k == IndexIn(c, from)
         IN  (IF k = 0 THEN c
              ELSE IF k > Len(to) THEN Char(to, Len(to)) ELSE Char(to, k))
             \o Translate(SubSeq(s, 2, Len(s)), from, to)

\* strings.Trim
RECURSIVE Trim(_, _)
Trim(s, cutset) ==
    IF s = "" THEN ""
    ELSE IF IndexIn(Char(s, 1), cutset) > 0 THEN Trim(SubSeq(s, 2, Len(s)), cutset)
    ELSE IF IndexIn(Char(s, Len(s)), cutset) > 0
    THEN Trim(SubSeq(s, 1, Len(s) - 1), cutset)
    ELSE s

\* the canonical form getTrustClaimFromString looks up
Canon(s) == Trim(Translate(ToSnakeCase(s), ".- ", "_"), " \t")

\* the loops over the maps, visited in the given order: the claim of the
\* first entry whose tag is canon. Within one map the range visits the
\* entries in any order; no map holds a tag twice.
FirstMapWith(canon, order) ==
    {i \in 1..Len(order) :
        /\ \E e \in detailsMaps[order[i]] : e.tag = canon
        /\ \A j \in 1..(i - 1) : \A e \in detailsMaps[order[j]] : e.tag # canon}
searchTags(canon, order, s) ==
    IF FirstMapWith(canon, order) = {}
    THEN [err |-> "not a valid TrustClaim value: \"" \o s \o "\"", claim |-> NoClaim]
    ELSE [err |-> "",
          claim |-> (CHOOSE e \in detailsMaps[order[CHOOSE i \in FirstMapWith(canon, order) : TRUE]] :
                        e.tag = canon).claim]

\* getTrustClaimFromString: a number, or the tag of a claim
getTrustClaimFromString(s) ==
    IF Atoi(s).ok THEN getTrustClaimFromInt(Atoi(s).i)
    ELSE searchTags(Canon(s), [i \in 1..Len(detailsMaps) |-> i], s)

\* ToTrustClaim: (&claim, err); a value of no listed type is NoClaim, no error
ToTrustClaim(v) ==
    CASE v.k = "TrustClaim" -> [err |-> "", claim |-> v.n]
      [] v.k = "json.Number" ->
           IF ~Atoi(v.s).ok
           THEN [err |-> "not a valid TrustClaim value: " \o v.s \o ": %!w(<nil>)",
                 claim |-> NoClaim]
           ELSE getTrustClaimFromInt(Atoi(v.s).i)
      [] v.k \in {"string", "bytes"} -> getTrustClaimFromString(v.s)
      [] v.k \in IntKinds ->
           IF IsHuge(v)
           THEN [err |-> "not a valid TrustClaim value: " \o v.s, claim |-> NoClaim]
           ELSE getTrustClaimFromInt(v.n)
      [] v.k = "float64" -> getTrustClaimFromInt(v.n)
      [] OTHER -> [err |-> "", claim |-> NoClaim]

\* getExtraKeys, as a set: the keys of m that are not expected
getExtraKeys(m, expected) == (DOMAIN m) \ Range(expected)

\* the extra keys in the order the range over m appends them, which is the
\* order ord.ext gives to the keys that no struct or vector expects
ExtraKeys(m, expected, ord) == KeysInOrder(getExtraKeys(m, expected), ord.ext)

\* populateClaimFromMap for the keys from index i on: the first error stops
RECURSIVE populateClaimsFromMap(_, _, _)
populateClaimsFromMap(m, vector, i) ==
    IF i > Len(TrustVectorKeys) THEN [err |-> "", tv |-> vector]
    ELSE LET key == TrustVectorKeys[i]
         IN  IF key \notin DOMAIN m THEN populateClaimsFromMap(m, vector, i + 1)
             ELSE LET c == ToTrustClaim(m[key])
                  IN  IF c.err # ""
                      THEN [err |-> "bad value for \"" \o key \o "\": " \o c.err,
                            tv |-> vector]
                      ELSE populateClaimsFromMap(
                               m, [vector EXCEPT ![key] = c.claim], i + 1)

\* getTrustVectorFromMap
getTrustVectorFromMap_IgnoreExtra(m, ord) == populateClaimsFromMap(m, ZeroTrustVector, 1)
getTrustVectorFromMap(m, ord) ==
    IF getExtraKeys(m, TrustVectorKeys) # {}
    THEN [err |-> "found unexpected fields: "
                  \o Join(ExtraKeys(m, TrustVectorKeys, ord), ", "),
          tv |-> ZeroTrustVector]
    ELSE populateClaimsFromMap(m, ZeroTrustVector, 1)

\* ToTrustVector: (&tv, err)
ToTrustVector(v, ord) ==
    LET r == IF v.k = "map" THEN getTrustVectorFromMap(v.m, ord)
             ELSE [err |-> "invalid value for TrustVector: " \o v.k,
                   tv |-> ZeroTrustVector]
    IN  [err |-> r.err, type |-> Ptr("TrustVector"), val |-> {r.tv}]

\* VeraisonTeeInfo.Validate
VeraisonTeeInfo_Validate(o) ==
    IF o.TeeName = {} \/ o.TeeName = {""} THEN "empty or missing \"tee-name\""
    ELSE IF o.EvidenceID = {} \/ o.EvidenceID = {""}
    THEN "empty or missing \"evidence-id\""
    ELSE ""

\* str
str(v) == IF v.k = "string" THEN v.s ELSE ""

\* the loop of ToVeraisonTeeInfo over the keys in the order given
RECURSIVE teeInfoFromKeys(_, _, _)
teeInfoFromKeys(vMap, keys, teeInfo) ==
    IF keys = <<>> THEN [err |-> "", teeInfo |-> teeInfo]
    ELSE LET key == Head(keys)
             s == str(vMap[key])
         IN  CASE key = "tee-name" ->
                    teeInfoFromKeys(vMap, Tail(keys), [teeInfo EXCEPT !.TeeName = {s}])
               [] key = "evidence-id" ->
                    teeInfoFromKeys(vMap, Tail(keys),
                                    [teeInfo EXCEPT !.EvidenceID = {s}])
               [] key = "evidence" ->
                    LET d == DecodeString(StdEncoding, s)
                    IN  IF d.err # ""
                        THEN [err |-> "decoding \"evidence\": " \o d.err,
                              teeInfo |-> teeInfo]
                        ELSE teeInfoFromKeys(vMap, Tail(keys),
                                             [teeInfo EXCEPT !.Evidence = {d.b}])
               [] OTHER ->
                    [err |-> "found unknown key \"" \o key
                             \o "\" in \"tee-info\" object",
                     teeInfo |-> teeInfo]

\* ToVeraisonTeeInfo
ToVeraisonTeeInfo(v, ord) ==
    IF v.k # "map" THEN ParseError("unexpected format for \"tee-info\"")
    ELSE LET r == teeInfoFromKeys(v.m, KeysInOrder(DOMAIN v.m, ord.tee),
                                  ZeroVeraisonTeeInfo)
         IN  IF r.err # "" THEN ParseError(r.err)
             ELSE IF VeraisonTeeInfo_Validate(r.teeInfo) # ""
             THEN ParseError("\"tee-info\" validation failed: "
                             \o VeraisonTeeInfo_Validate(r.teeInfo))
             ELSE Parsed(Ptr("VeraisonTeeInfo"), {r.teeInfo})

\* reflect.Value.Convert: a parsed value goes into a field of its own type;
\* any other pair of the types in use is not convertible and Convert panics
Convertible(from, to) == from = to

\* The fields doPopulateStructFromMap visits, in the order it visits them:
\* those of the struct, with those of an embedded struct in its place;
\* `within` names the embedded struct field a field lies in, "" for none.
RECURSIVE TaggedFields(_, _)
TaggedFields(T, within) ==
    LET fs == StructFields(T)
        at(i) ==
            IF parseTag(fs[i].tag).ok
            THEN <<[name |-> fs[i].name, within |-> within,
                    tagSpec |-> parseTag(fs[i].tag), type |-> fs[i].type]>>
            ELSE IF fs[i].type.kind = "struct" /\ fs[i].name = fs[i].type.elem
            THEN TaggedFields(fs[i].type.elem, fs[i].name)
            ELSE <<>>
        upTo[i \in 0..Len(fs)] == IF i = 0 THEN <<>> ELSE upTo[i - 1] \o at(i)
    IN  upTo[Len(fs)]

\* the end of the loop body of doPopulateStructFromMap for the field f whose
\* claim is in the map: r is what the parser returned
setParsed(found, f, r) ==
    IF r.err # ""
    THEN [found EXCEPT !.invalid =
             Append(@, QuoteName(f.tagSpec.Name) \o " (" \o r.err \o ")")]
    ELSE IF ~Convertible(r.type, f.type) THEN [found EXCEPT !.panic = TRUE]
    ELSE IF f.within = "" THEN [found EXCEPT !.dest[f.name] = r.val]
    ELSE [found EXCEPT !.dest[f.within][f.name] = r.val]

\* doPopulateStructFromMap: the destination, the expected, missing and
\* invalid lists, and whether Convert panicked, which leaves the fields set
\* so far as they are. parsed[name] is what the parser of the claim name
\* returns for m[name].
doPopulateStructFromMap(T, dest, m, parsed) ==
    LET fs == TaggedFields(T, "")
        visit(st, f) ==
            LET found == [st EXCEPT !.expected = Append(@, f.tagSpec.Name)]
            IN  IF f.tagSpec.Name \notin DOMAIN m
                THEN IF f.tagSpec.IsMandatory
                     THEN [found EXCEPT
                              !.missing = Append(@, QuoteName(f.tagSpec.Name))]
                     ELSE found
                ELSE setParsed(found, f, parsed[f.tagSpec.Name])
        after[i \in 0..Len(fs)] ==
            IF i = 0
            THEN [dest |-> dest, expected |-> <<>>, missing |-> <<>>,
                  invalid |-> <<>>, panic |-> FALSE]
            ELSE IF after[i - 1].panic THEN after[i - 1]
            ELSE visit(after[i - 1], fs[i])
    IN  after[Len(fs)]

\* the error populateStructFromMap builds from what the loop found
populateProblems_FirstOnly(found, m, ignoreUnexpected, ord) ==
    IF Len(found.missing) > 0 THEN "missing mandatory " \o found.missing[1]
    ELSE IF Len(found.invalid) > 0 THEN "invalid value(s) for " \o found.invalid[1]
    ELSE ""
populateProblems(found, m, ignoreUnexpected, ord) ==
    Join((IF Len(found.missing) > 0
          THEN <<"missing mandatory " \o Join(found.missing, ", ")>> ELSE <<>>)
         \o (IF Len(found.invalid) > 0
             THEN <<"invalid value(s) for " \o Join(found.invalid, ", ")>>
             ELSE <<>>)
         \o (IF ~ignoreUnexpected /\ getExtraKeys(m, found.expected) # {}
             THEN <<"unexpected: " \o Join(ExtraKeys(m, found.expected, ord), ", ")>>
             ELSE <<>>),
         "; ")

\* populateStructFromMap: the destination as the call leaves it, and the error
Populated(found, m, ignoreUnexpected, ord) ==
    [dest |-> found.dest, panic |-> found.panic,
     err |-> IF found.panic THEN ""
             ELSE populateProblems(found, m, ignoreUnexpected, ord)]
populateStructFromMap(T, dest, m, parsed, ignoreUnexpected, ord) ==
    Populated(doPopulateStructFromMap(T, dest, m, parsed), m, ignoreUnexpected, ord)

\* a struct parser's result: (&dest, err)
ParsedStruct(T, r) == [err |-> r.err, type |-> Ptr(T), val |-> {r.dest}]

\* ToVerifierIdentity: every claim is a string, unexpected keys are an error
VerifierIdentityParser(name, rawVal) == stringPtrParser(rawVal)
ToVerifierIdentity(v, ord) ==
    IF v.k # "map" THEN ParseError("not a JSON object")
    ELSE ParsedStruct("VerifierIdentity",
                      populateStructFromMap(
                          "VerifierIdentity", ZeroVerifierIdentity, v.m,
                          [k \in DOMAIN v.m |-> VerifierIdentityParser(k, v.m[k])],
                          FALSE, ord))

\* the parsers map of ToAppraisal, else the default parser
AppraisalParser(name, rawVal, ord) ==
    CASE name = "ear.status" -> ToTrustTier(rawVal)
      [] name = "ear.trustworthiness-vector" -> ToTrustVector(rawVal, ord)
      [] name \in {"ear.veraison.annotated-evidence", "ear.veraison.policy-claims",
                   "ear.veraison.key-attestation"} -> stringMapPtrParser(rawVal)
      [] OTHER -> stringPtrParser(rawVal)

\* ToAppraisal
ToAppraisal(v, ord) ==
    IF v.k # "map" THEN ParseError("not a JSON object")
    ELSE ParsedStruct("Appraisal",
                      populateStructFromMap(
                          "Appraisal", ZeroAppraisal, v.m,
                          [k \in DOMAIN v.m |-> AppraisalParser(k, v.m[k], ord)],
                          TRUE, ord))

\* the "submods" parser of populateFromMap once every value went through
\* ToAppraisal; the range over the map visits the submodules in the order ord
submodsParsed(parsed, ord) ==
    LET names == KeysInOrder(DOMAIN parsed, ord)
        bad == SelectSeq(names, LAMBDA k : parsed[k].err # "")
        problems == [i \in 1..Len(bad) |-> bad[i] \o ": " \o parsed[bad[i]].err]
    IN  IF Len(problems) > 0 THEN ParseError(Join(problems, "; "))
        ELSE Parsed(MapOfPtr("Appraisal"),
                    [k \in DOMAIN parsed |-> Deref(parsed[k].val)])
submodsParser(v, ord) ==
    IF v.k # "map" THEN ParseError("not a map object")
    ELSE submodsParsed([k \in DOMAIN v.m |-> ToAppraisal(v.m[k], ord)], ord.sub)

\* the parsers map of populateFromMap, else the default parser
AttestationResultParser(name, rawVal, ord) ==
    CASE name = "iat" -> int64PtrParser(rawVal)
      [] name = "ear.trustworthiness-vector" -> ToTrustVector(rawVal, ord)
      [] name = "ear.verifier-id" -> ToVerifierIdentity(rawVal, ord)
      [] name = "ear.raw-evidence" -> b64urlBytesPtrParser(rawVal)
      [] name = "submods" -> submodsParser(rawVal, ord)
      [] name = "ear.veraison.tee-info" -> ToVeraisonTeeInfo(rawVal, ord)
      [] OTHER -> stringPtrParser(rawVal)

\* AttestationResult.populateFromMap
populateFromMap(o, m, ord) ==
    populateStructFromMap("AttestationResult", o, m,
                          [k \in DOMAIN m |-> AttestationResultParser(k, m[k], ord)],
                          TRUE, ord)

(***************************************************************************)
(* Decoding entry points                                                   *)
(***************************************************************************)
\* what a decoding call leaves: the target, the error, whether it panicked
Decoded(o, err) == [o |-> o, err |-> err, panic |-> FALSE]

\* what a decoding call that ends in populateFromMap leaves
DecodedFrom(p) == [o |-> p.dest, err |-> p.err, panic |-> p.panic]

\* the end of UnmarshalJSON: the error of populateFromMap, else of validate()
UnmarshalJSON_populated_NoValidate(p, ord) == DecodedFrom(p)
UnmarshalJSON_populated(p, ord) ==
    IF p.panic \/ p.err # "" THEN DecodedFrom(p)
    ELSE Decoded(p.dest, validate(p.dest, ord.sub))

\* AttestationResult.UnmarshalJSON. json.Unmarshal into a map accepts an
\* object or null and nothing else.
UnmarshalJSON(o, data, ord) ==
    IF data.format # "JSON" THEN Decoded(o, "invalid character")
    ELSE IF data.doc.k \notin {"map", "nil"}
    THEN Decoded(o, "json: cannot unmarshal " \o data.doc.k
                    \o " into Go value of type map[string]interface {}")
    ELSE UnmarshalJSON_populated(
             populateFromMap(o, IF data.doc.k = "map" THEN data.doc.m ELSE EmptyMap,
                             ord),
             ord)

\* time.Time{}.Unix(), what token.IssuedAt() yields for a token without iat:
\* -62135596800, written in hundreds of seconds to fit the integers of TLC
ZeroTimeUnix == -621355968

\* jwt.Parse with jwt.WithKey(alg, key): the signature verifies under the
\* algorithm and key it was made with, and iat, when there, is a number
jwtParse_Unverified(data, alg, key) ==
    /\ data.format = "JWT"
    /\ data.payload.k = "map"
    /\ "iat" \in DOMAIN data.payload.m =>
          data.payload.m["iat"].k \in {"float64", "int", "int64"}
jwtParse(data, alg, key) ==
    /\ data.format = "JWT"
    /\ data.intact
    /\ data.alg = alg /\ data.signer = key
    /\ data.payload.k = "map"
    /\ "iat" \in DOMAIN data.payload.m =>
          data.payload.m["iat"].k \in {"float64", "int", "int64"}

\* AttestationResult.Verify: the claims of the token, iat as Unix seconds
Verify(o, data, alg, key, ord) ==
    IF ~jwtParse(data, alg, key) THEN Decoded(o, "failed verifying JWT message")
    ELSE LET m == data.payload.m
             iat == IF "iat" \in DOMAIN m THEN m["iat"].n ELSE ZeroTimeUnix
         IN  DecodedFrom(populateFromMap(o, Put(m, "iat", Int64V(iat)), ord))

\* cbor.Unmarshal into o: a claim on the wire replaces the field, an optional
\* claim left out leaves the field alone, and the submodules on the wire are
\* stored into the map the target holds
cborUnmarshal(o, claims) ==
    [claims EXCEPT
        !.RawEvidence = IF claims.RawEvidence = {} THEN o.RawEvidence ELSE @,
        !.Nonce = IF claims.Nonce = {} THEN o.Nonce ELSE @,
        !.Submods = [k \in (DOMAIN o.Submods) \cup (DOMAIN claims.Submods) |->
                        IF k \in DOMAIN claims.Submods THEN claims.Submods[k]
                        ELSE o.Submods[k]]]

\* AttestationResult.FromCBOR
FromCBOR(o, data, ord) ==
    IF data.format # "CBOR" THEN Decoded(o, "cbor: cannot unmarshal")
    ELSE LET o2 == cborUnmarshal(o, data.claims)
         IN  Decoded(o2, validate(o2, ord.sub))

\* AttestationResult.VerifyCWT
VerifyCWT(o, data, alg, key, ord) ==
    IF ~KeyFits(alg, key) THEN Decoded(o, "algorithm mismatch")
    ELSE IF data.format # "CWT"
    THEN Decoded(o, "failed to parse CWT message (only COSE_Sign1 is supported now)")
    ELSE IF ~(data.intact /\ data.alg = alg /\ data.signer = key)
    THEN Decoded(o, "failed verifying COSE_Sign1 message")
    ELSE FromCBOR(o, data.payload, ord)

(***************************************************************************)
(* Status update                                                           *)
(***************************************************************************)
\* the body of the loop of Appraisal.UpdateStatusFromTrustVector
StatusAfterClaim_Assign(status, claimTier) == claimTier
StatusAfterClaim_OneStep(status, claimTier) ==
    IF status < claimTier
    THEN CHOOSE t \in {TrustTierAffirming, TrustTierWarning, TrustTierContraindicated} :
            /\ t > status
            /\ \A u \in {TrustTierAffirming, TrustTierWarning,
                         TrustTierContraindicated} : u > status => t <= u
    ELSE status
StatusAfterClaim_Never(status, claimTier) == status
StatusAfterClaim(status, claimTier) ==
    IF status < claimTier THEN claimTier ELSE status

\* the loop over the claims, visited in the order claims lists them
RECURSIVE StatusAfterClaims(_, _)
StatusAfterClaims(status, claims) ==
    IF claims = <<>> THEN [panic |-> FALSE, status |-> status]
    ELSE LET t == GetTier(Head(claims))
         IN  IF t.panic THEN [panic |-> TRUE, status |-> status]
             ELSE StatusAfterClaims(StatusAfterClaim(status, t.tier), Tail(claims))

\* Appraisal.UpdateStatusFromTrustVector, the range over AsMap() taking the
\* keys in the order co; a nil TrustVector or a nil Status is dereferenced
Appraisal_UpdateStatusFromTrustVector(o, co) ==
    IF o.TrustVector = {} \/ o.Status = {} THEN [panic |-> TRUE, a |-> o]
    ELSE LET m == TrustVector_AsMap(Deref(o.TrustVector))
             r == StatusAfterClaims(Deref(o.Status), [i \in 1..Len(co) |-> m[co[i]]])
         IN  [panic |-> r.panic, a |-> [o EXCEPT !.Status = {r.status}]]

\* AttestationResult.UpdateStatusFromTrustVector over the submodules names
RECURSIVE UpdateSubmods(_, _, _)
UpdateSubmods(sm, names, co) ==
    IF names = <<>> THEN [panic |-> FALSE, sm |-> sm]
    ELSE LET r == Appraisal_UpdateStatusFromTrustVector(sm[Head(names)], co)
             sm2 == [sm EXCEPT ![Head(names)] = r.a]
         IN  IF r.panic THEN [panic |-> TRUE, sm |-> sm2]
             ELSE UpdateSubmods(sm2, Tail(names), co)

AttestationResult_UpdateStatusFromTrustVector(o, ord, co) ==
    UpdateSubmods(o.Submods, KeysInOrder(DOMAIN o.Submods, ord), co)

(***************************************************************************)
(* Bounds and the inputs drawn within them                                 *)
(***************************************************************************)
MaxSubmods == 2      \* submodule names in use

SubmodName(i) == "s" \o ToString(i)
SubmodNames == {SubmodName(i) : i \in 1..MaxSubmods}

\* every map from some of the submodule names to appraisals of A
SubmodMaps(A) == UNION {[S -> A] : S \in SUBSET SubmodNames}

testIAT == 1666091373
testNonce == "0123456789abcdef"
testBadNonce == "1337"
testUnsupportedProfile == "1.2.3.4.5"
testPolicyID == "policy://test/01234"
testVerifierID == [Build |-> {"rrtrap-v1.0.0"}, Developer |-> {"Acme Inc."}]
testTeeInfo == [TeeName |-> {"aws-nitro"}, EvidenceID |-> {"405e0c31"},
                Evidence |-> {"evidence"}]
testExtension == [k \in {"k1"} |-> StrV("v1")]
testTrustVector == [ZeroTrustVector EXCEPT !["executables"] = 3]
testAppraisal == [ZeroAppraisal EXCEPT !.Status = {TrustTierAffirming}]

\* what validate() reads: every combination of the top-level claims over a
\* few submodule maps, and every submodule map under the best and the worst
\* of the top-level claims
Header(p, i, v, n) ==
    [ZeroAttestationResult EXCEPT !.Profile = p, !.IssuedAt = i,
                                  !.VerifierID = v, !.Nonce = n]
Headers ==
    {Header(p, i, v, n) :
        p \in {{}, {EatProfile}, {EatTrusteeProfile}, {testUnsupportedProfile}},
        i \in {{}, {testIAT}},
        v \in {{}, {testVerifierID}},
        n \in {{}, {testNonce}, {testBadNonce}}}
ValidateInputs ==
    {[h EXCEPT !.Submods = sm] :
        h \in Headers,
        sm \in {EmptyMap} \cup [{SubmodName(1)} -> {ZeroAppraisal, testAppraisal}]}
    \cup
    {[h EXCEPT !.Submods = sm] :
        h \in {Header({EatTrusteeProfile}, {testIAT}, {testVerifierID}, {testNonce}),
               Header({testUnsupportedProfile}, {}, {}, {testBadNonce})},
        sm \in SubmodMaps({ZeroAppraisal, testAppraisal})}

\* results that validate, with the optional claims present or not
RichAppraisals ==
    {testAppraisal,
     [testAppraisal EXCEPT !.Status = {5}],
     [Status |-> {TrustTierWarning}, TrustVector |-> {testTrustVector},
      AppraisalPolicyID |-> {testPolicyID},
      AppraisalExtensions |->
          [ZeroAppraisalExtensions EXCEPT !.VeraisonPolicyClaims = {testExtension}]]}

RichInputs ==
    {[Profile |-> {EatProfile}, VerifierID |-> {v}, RawEvidence |-> r,
      IssuedAt |-> {testIAT}, Nonce |-> n,
      Submods |-> [k \in {SubmodName(1)} |-> a],
      AttestationResultExtensions |-> [VeraisonTeeInfo |-> t]] :
        v \in {testVerifierID, [testVerifierID EXCEPT !.Build = {}]},
        r \in {{}, {"evidence"}},
        n \in {{}, {testNonce}},
        t \in {{}, {testTeeInfo}, {[testTeeInfo EXCEPT !.TeeName = {}]}},
        a \in RichAppraisals}

\* what UpdateStatusFromTrustVector reads: in the first submodule any status
\* over any two claims of the vector, next to submodules that are missing,
\* lack a vector or a status, or have both
ClaimSamples == {NoClaim, 2, -33, 96, MaxInt8}
SampledClaims == {"instance-identity", "sourced-data"}
StatusSamples ==
    {{}, {-1}, {TrustTierNone}, {TrustTierAffirming}, {TrustTierWarning},
     {TrustTierContraindicated}}
UpdateVectors ==
    {[k \in Range(TrustVectorKeys) |-> IF k \in SampledClaims THEN f[k] ELSE NoClaim] :
        f \in [SampledClaims -> ClaimSamples]}
UpdateAppraisals ==
    {[ZeroAppraisal EXCEPT !.Status = st, !.TrustVector = tv] :
        st \in StatusSamples, tv \in {{}} \cup {{v} : v \in UpdateVectors}}
OtherAppraisals ==
    {testAppraisal,
     [ZeroAppraisal EXCEPT !.TrustVector = {testTrustVector}],
     [testAppraisal EXCEPT !.TrustVector =
         {[ZeroTrustVector EXCEPT !["hardware"] = 96]}]}
UpdateInputs ==
    {[Header({EatProfile}, {testIAT}, {testVerifierID}, {}) EXCEPT !.Submods = sm] :
        sm \in {m \in UNION {[S -> UpdateAppraisals \cup OtherAppraisals] :
                               S \in SUBSET SubmodNames} :
                  \A k \in DOMAIN m :
                      k # SubmodName(1) => m[k] \in OtherAppraisals}}

\* the orders in which a range over TrustVector.AsMap() visits the claims
ClaimOrders ==
    {TrustVectorKeys,
     [i \in 1..Len(TrustVectorKeys) |->
         TrustVectorKeys[Len(TrustVectorKeys) + 1 - i]]}

\* The results decoded into: a fresh one, and one that holds every claim
testFullAppraisal ==
    [Status |-> {TrustTierWarning}, TrustVector |-> {testTrustVector},
     AppraisalPolicyID |-> {testPolicyID},
     AppraisalExtensions |->
         [ZeroAppraisalExtensions EXCEPT !.VeraisonPolicyClaims = {testExtension}]]
testBaseResult ==
    [Header({EatProfile}, {testIAT}, {testVerifierID}, {})
        EXCEPT !.Submods = [k \in {SubmodName(1)} |-> testAppraisal]]
testFullResult ==
    [Profile |-> {EatTrusteeProfile}, VerifierID |-> {testVerifierID},
     RawEvidence |-> {"I didn't do it"}, IssuedAt |-> {testIAT},
     Nonce |-> {testNonce},
     Submods |-> [k \in {SubmodName(1)} |-> testFullAppraisal],
     AttestationResultExtensions |-> [VeraisonTeeInfo |-> {testTeeInfo}]]
DecodeTargets == {ZeroAttestationResult, testFullResult}

\* The JSON documents: what MarshalJSON writes for testBaseResult, with up to
\* MaxDeviations of its claims left out, added or given another value
MaxDeviations == 1

Absent == V("absent", "", 0, 0, <<>>)
WithClaim(m, k, v) ==
    IF v = Absent THEN [x \in (DOMAIN m) \ {k} |-> m[x]] ELSE Put(m, k, v)

testTrustVectorDoc ==
    [k \in Range(TrustVectorKeys) |->
        FloatV(IF k = "executables" THEN 2 ELSE 0, 0)]
AppraisalDocs ==
    LET ok == [k \in {"ear.status"} |-> StrV("affirming")]
    IN  {MapV(ok), StrV("affirming"), MapV(EmptyMap)}
        \cup {MapV(Put(ok, "ear.status", v)) :
                v \in {FloatV(2, 0), FloatV(5, 0), StrV("bogus"), StrV("96")}}
        \cup {MapV(Put(ok, "ear.trustworthiness-vector", v)) :
                v \in {MapV(testTrustVectorDoc), StrV("none"),
                       MapV(Put(testTrustVectorDoc, "bogus", FloatV(0, 0))),
                       MapV(Put(testTrustVectorDoc, "hardware", FloatV(200, 0))),
                       MapV([k \in {"hardware"} |-> StrV("unsafe_config")])}}
        \cup {MapV(Put(ok, "ear.appraisal-policy-id", v)) :
                v \in {StrV(testPolicyID), FloatV(7, 0)}}
        \cup {MapV(Put(ok, "ear.veraison.policy-claims", v)) :
                v \in {MapV(testExtension), StrV("x")}}
testVerifierIDDoc ==
    [k \in {"build", "developer"} |->
        IF k = "build" THEN StrV(Deref(testVerifierID.Build))
        ELSE StrV(Deref(testVerifierID.Developer))]
testTeeInfoDoc ==
    [k \in {"tee-name", "evidence-id", "evidence"} |->
        CASE k = "tee-name" -> StrV(Deref(testTeeInfo.TeeName))
          [] k = "evidence-id" -> StrV(Deref(testTeeInfo.EvidenceID))
          [] k = "evidence" -> StrV(StdEncoding[Deref(testTeeInfo.Evidence)])]
ClaimAlternatives(k) ==
    CASE k = "eat_profile" ->
           {Absent, StrV(testUnsupportedProfile), StrV(EatTrusteeProfile),
            FloatV(1, 0)}
      [] k = "iat" -> {Absent, StrV("now"), FloatV(testIAT, 5), NilV}
      [] k = "ear.verifier-id" ->
           {Absent, StrV("x"),
            MapV(WithClaim(testVerifierIDDoc, "developer", Absent)),
            MapV(WithClaim(testVerifierIDDoc, "build", NilV)),
            MapV(WithClaim(testVerifierIDDoc, "bogus", StrV("x"))),
            MapV(WithClaim(WithClaim(testVerifierIDDoc, "bogus", StrV("x")),
                           "bogus2", StrV("y")))}
      [] k = "ear.raw-evidence" ->
           {StrV(RawURLEncoding["evidence"]), StrV(StdEncoding["ev"]), FloatV(7, 0)}
      [] k = "eat_nonce" -> {StrV(StdEncoding[testNonce]), FloatV(7, 0)}
      [] k = "submods" ->
           {Absent, StrV("x"), MapV(EmptyMap)}
           \cup {MapV([n \in {SubmodName(1)} |-> a]) : a \in AppraisalDocs}
           \cup {MapV([n \in SubmodNames |-> a]) :
                   a \in {MapV([x \in {"ear.status"} |-> StrV("warning")]),
                          MapV(EmptyMap)}}
      [] k = "ear.veraison.tee-info" ->
           {MapV(testTeeInfoDoc), StrV("x"),
            MapV(WithClaim(testTeeInfoDoc, "tee-name", Absent)),
            MapV(WithClaim(WithClaim(testTeeInfoDoc, "bogus", StrV("x")),
                           "evidence", StrV(RawURLEncoding["ev"])))}
      [] k = "ear.trustworthiness-vector" -> {MapV(testTrustVectorDoc)}
      [] k = "bogus" -> {StrV("x")}
ClaimChanges ==
    UNION {{<<k, v>> : v \in ClaimAlternatives(k)} :
             k \in {"eat_profile", "iat", "ear.verifier-id", "ear.raw-evidence",
                    "eat_nonce", "submods", "ear.veraison.tee-info",
                    "ear.trustworthiness-vector", "bogus"}}

testBaseDoc == Deref(MarshalJSON(testBaseResult, <<SubmodName(1)>>).out).doc.m

RECURSIVE DocsWithin(_)
DocsWithin(n) ==
    IF n = 0 THEN {testBaseDoc}
    ELSE DocsWithin(n - 1)
         \cup {WithClaim(d, c[1], c[2]) : d \in DocsWithin(n - 1), c \in ClaimChanges}

\* The bytes handed to the decoders: JSON texts, JWTs over the same claims
\* sets, CBOR encodings and CWTs over them, and bytes that are none of these
Garbage == [format |-> "garbage"]
JSONWires ==
    {[format |-> "JSON", doc |-> v, indent |-> FALSE] :
        v \in {MapV(d) : d \in DocsWithin(MaxDeviations) \cup {EmptyMap}}
               \cup {NilV, ArrV}}
\* a token as its signer made it, and the tokens that differ from one in some
\* byte: of the header, of the payload (which may no longer be readable, or
\* read as other claims) or of the signature
TamperedPayloads == {MapV(testBaseDoc), MapV(EmptyMap), ArrV, NilV}
JWTWires ==
    {[format |-> "JWT", alg |-> "ES256", signer |-> "ec-p256",
      payload |-> MapV(d), intact |-> TRUE] :
        d \in DocsWithin(MaxDeviations) \cup {EmptyMap}}
    \cup {[format |-> "JWT", alg |-> "EdDSA", signer |-> "ed25519",
           payload |-> MapV(testBaseDoc), intact |-> TRUE]}
    \cup {[format |-> "JWT", alg |-> a, signer |-> "ec-p256",
           payload |-> v, intact |-> FALSE] :
              a \in Algs, v \in TamperedPayloads}
CBORWires ==
    {[format |-> "CBOR", claims |-> c] :
        c \in {testBaseResult, testFullResult, ZeroAttestationResult,
               [testBaseResult EXCEPT !.Profile = {testUnsupportedProfile}],
               [testBaseResult EXCEPT !.Submods = EmptyMap]}}
CWTWires ==
    {[format |-> "CWT", alg |-> "ES256", signer |-> "ec-p256",
      payload |-> w, intact |-> i] : w \in CBORWires, i \in BOOLEAN}
Wires == JSONWires \cup JWTWires \cup CBORWires \cup CWTWires \cup {Garbage}

\* the claims object a wire carries as JSON, and the keys a decoder ranges over
WireClaims(w) ==
    IF w.format = "JSON" /\ w.doc.k = "map" THEN w.doc.m
    ELSE IF w.format = "JWT" /\ w.payload.k = "map" THEN w.payload.m
    ELSE EmptyMap
MapKeysAt(m, k) == IF k \in DOMAIN m /\ m[k].k = "map" THEN DOMAIN m[k].m ELSE {}
WireSubmods(w) ==
    IF w.format = "CBOR" THEN DOMAIN w.claims.Submods
    ELSE IF w.format = "CWT" THEN DOMAIN w.payload.claims.Submods
    ELSE MapKeysAt(WireClaims(w), "submods")
\* the tee-info keys in one order and in the opposite one: either of any two
\* keys is visited first in one of them
TeeInfoKeys == <<"tee-name", "evidence-id", "evidence", "bogus">>
TeeInfoOrders(keys) ==
    {KeysInOrder(keys, q) :
        q \in {TeeInfoKeys,
               [i \in 1..Len(TeeInfoKeys) |-> TeeInfoKeys[Len(TeeInfoKeys) + 1 - i]]}}
\* the keys no struct expects, in one order and in the opposite one
ExtraKeyNames == <<"bogus", "bogus2">>
ExtraKeyOrders(keys) ==
    {KeysInOrder(keys, q) :
        q \in {ExtraKeyNames,
               [i \in 1..Len(ExtraKeyNames) |->
                   ExtraKeyNames[Len(ExtraKeyNames) + 1 - i]]}}
DecodeOrders(o, w) ==
    {[sub |-> s, tee |-> t, ext |-> e] :
        s \in Perms(WireSubmods(w) \cup DOMAIN o.Submods),
        t \in TeeInfoOrders(MapKeysAt(WireClaims(w), "ear.veraison.tee-info")),
        e \in ExtraKeyOrders(MapKeysAt(WireClaims(w), "ear.verifier-id"))}

EncodeInputs == ValidateInputs \cup RichInputs

(***************************************************************************)
(* The calls                                                               *)
(***************************************************************************)
NoCall == [op |-> "none"]
NoData == [format |-> "none"]

\* TrustClaim.GetTier on the claim
DoGetTier ==
    /\ last' = [op |-> "GetTier", panic |-> GetTier(claim).panic,
                tier |-> GetTier(claim).tier]
    /\ UNCHANGED <<claim, ar, wire>>

\* the orders in which a range over o.Submods can visit its keys
SubmodOrders(o) == Perms(DOMAIN o.Submods)

\* o.validate()
DoValidate ==
    \E ord \in SubmodOrders(ar) :
        LET l == validateLists(ar, ord) IN
        /\ last' = [op |-> "validate", ord |-> ord, err |-> validate(ar, ord),
                    missing |-> l.missing, invalid |-> l.invalid]
        /\ UNCHANGED <<claim, ar, wire>>

EncodeCall(op, ord, alg, key, r) ==
    [op |-> op, ord |-> ord, alg |-> alg, key |-> key,
     panic |-> r.panic, err |-> r.err, out |-> r.out]

DoMarshalJSON ==
    \E ord \in SubmodOrders(ar) :
        LET r == MarshalJSON(ar, ord) IN
        /\ last' = EncodeCall("MarshalJSON", ord, "", "", r)
        /\ UNCHANGED <<claim, ar, wire>>

DoMarshalJSONIndent ==
    \E ord \in SubmodOrders(ar) :
        LET r == MarshalJSONIndent(ar, ord) IN
        /\ last' = EncodeCall("MarshalJSONIndent", ord, "", "", r)
        /\ UNCHANGED <<claim, ar, wire>>

DoSign ==
    \E ord \in SubmodOrders(ar) : \E alg \in Algs : \E key \in Keys :
        LET r == Sign(ar, alg, key, ord) IN
        /\ last' = EncodeCall("Sign", ord, alg, key, r)
        /\ UNCHANGED <<claim, ar, wire>>

DoToCBOR ==
    \E ord \in SubmodOrders(ar) :
        LET r == ToCBOR(ar, ord) IN
        /\ last' = EncodeCall("ToCBOR", ord, "", "", r)
        /\ UNCHANGED <<claim, ar, wire>>

DoSignCWT ==
    \E ord \in SubmodOrders(ar) : \E alg \in Algs : \E key \in Keys :
        LET r == SignCWT(ar, alg, key, ord) IN
        /\ last' = EncodeCall("SignCWT", ord, alg, key, r)
        /\ UNCHANGED <<claim, ar, wire>>

\* o.UpdateStatusFromTrustVector()
DoUpdateStatusFromTrustVector ==
    \E ord \in SubmodOrders(ar) : \E co \in ClaimOrders :
        LET r == AttestationResult_UpdateStatusFromTrustVector(ar, ord, co) IN
        /\ ar' = [ar EXCEPT !.Submods = r.sm]
        /\ last' = [op |-> "UpdateStatusFromTrustVector", panic |-> r.panic,
                    before |-> ar]
        /\ UNCHANGED <<claim, wire>>

\* a decoding call on ar that returned or panicked with r
DecodeCall(op, ord, alg, key, r) ==
    /\ ar' = r.o
    /\ last' = [op |-> op, ord |-> ord, alg |-> alg, key |-> key,
                panic |-> r.panic, err |-> r.err, before |-> ar]
    /\ UNCHANGED <<claim, wire>>

\* o.UnmarshalJSON(wire)
DoUnmarshalJSON ==
    \E ord \in DecodeOrders(ar, wire) :
        DecodeCall("UnmarshalJSON", ord, "", "", UnmarshalJSON(ar, wire, ord))

\* o.Verify(wire, alg, key)
DoVerify ==
    \E ord \in DecodeOrders(ar, wire) : \E alg \in Algs : \E key \in Keys :
        DecodeCall("Verify", ord, alg, key, Verify(ar, wire, alg, key, ord))

\* o.FromCBOR(wire)
DoFromCBOR ==
    \E ord \in DecodeOrders(ar, wire) :
        DecodeCall("FromCBOR", ord, "", "", FromCBOR(ar, wire, ord))

\* o.VerifyCWT(wire, alg, key)
DoVerifyCWT ==
    \E ord \in DecodeOrders(ar, wire) : \E alg \in Algs : \E key \in Keys :
        DecodeCall("VerifyCWT", ord, alg, key, VerifyCWT(ar, wire, alg, key, ord))

\* The values handed to the conversions: integers of every type of the type
\* switches around the legal tiers and the limits of int8 and uint8, floats
\* with and without a fraction, numbers and names as text, and values of
\* other types
IntSamples == {-129, -128, -1, 0, 1, 2, 3, 32, 33, 96, 97, 123, 127, 128, 255,
               256, 258, 352}
KindRange(k) ==
    CASE k = "int8" -> MinInt8..MaxInt8
      [] k = "uint8" -> 0..(2 * MaxInt8 + 1)
      [] k \in {"uint16", "uint32", "uint", "uint64"} -> Nat
      [] OTHER -> Int
IntInputs == {IntV(k, n) : k \in IntKinds, n \in IntSamples}
NumberTexts == {"0", "2", "32", "96", "123", "127", "128", "-128", "-129", "258",
                "2.5", "1e2", "x", "18446744073709551615"}
NameTexts == {"none", "affirming", "warning", "contraindicated", "Affirming",
              "bogus", ""}
ClaimSpellings == {"unsafe_hw", "Unsafe HW", "unsafe-hw", "unsafe.hw", "UNSAFE_HW",
                   "UnsafeHW", "unsafeHw", "ApprovedFS", "CRYPTO-FAILED",
                   "Trusted Sources", "crypto_failed", "no_claim",
                   "unexected_evidence", "unexpected_evidence", "Bogus Claim",
                   "unsafehw"}
\* the maps of TestToTrustVector, and maps with a key or a value to refuse
TrustVectorDocs ==
    {testTrustVectorDoc,
     [k \in Range(TrustVectorKeys) |->
        CASE k = "instance-identity" -> ClaimV(2)
          [] k = "file-system" -> StrV("approved_fs")
          [] k \in {"hardware", "storage-opaque"} -> IntV("int", 32)
          [] k = "runtime-opaque" -> IntV("int", -7)
          [] k = "sourced-data" -> ClaimV(NoClaim)
          [] OTHER -> IntV("int", 2)],
     [k \in {"runtime-opaque", "hardware", "file-system"} |->
        CASE k = "runtime-opaque" -> StrV("encrypted_rt")
          [] k = "hardware" -> StrV("unsafe_hw")
          [] OTHER -> StrV("approved_fs")],
     [k \in {"instance-identity", "hardware", "file-system"} |->
        CASE k = "instance-identity" -> ClaimV(2)
          [] k = "hardware" -> StrV("bad claim")
          [] OTHER -> StrV("approved_fs")],
     [k \in {"hardware"} |-> FloatV(200, 0)],
     [k \in {"hardware", "bogus"} |-> FloatV(2, 0)],
     [k \in {"configuration", "bogus", "bogus2"} |-> FloatV(2, 0)],
     [k \in {"hardware", "sourced-data"} |->
        IF k = "hardware" THEN BoolV(TRUE) ELSE FloatV(96, 0)],
     [k \in {"executables"} |-> NilV]}
ConvertInputs ==
    {MapV(d) : d \in TrustVectorDocs}
    \cup {v \in IntInputs : v.n \in KindRange(v.k)}
    \cup {HugeUintV("uint"), HugeUintV("uint64")}
    \cup {FloatV(n, f) : n \in IntSamples, f \in {0, 5}}
    \cup {NumberV(t) : t \in NumberTexts}
    \cup {StrV(t) : t \in NumberTexts \cup NameTexts \cup ClaimSpellings}
    \cup {V("bytes", t, 0, 0, <<>>) : t \in {"2", "123", "warning"}}
    \cup {ClaimV(c) : c \in ClaimSamples}
    \cup {TierV(t) : t \in Int8}
    \cup {NilV, BoolV(TRUE), MapV(EmptyMap), ArrV}
Value(v) == [format |-> "interface{}", doc |-> v]

\* a conversion called on the value, and what it returned
Converted(op, err, val) ==
    /\ last' = [op |-> op, err |-> err, val |-> val]
    /\ UNCHANGED <<claim, ar, wire>>

\* ToTrustTier(v)
DoToTrustTier ==
    /\ wire.format = "interface{}"
    /\ Converted("ToTrustTier", ToTrustTier(wire.doc).err, ToTrustTier(wire.doc).val)

\* ToTrustClaim(v)
DoToTrustClaim ==
    /\ wire.format = "interface{}"
    /\ Converted("ToTrustClaim", ToTrustClaim(wire.doc).err,
                 {ToTrustClaim(wire.doc).claim})

\* int64PtrParser(v), the parser of iat
DoInt64PtrParser ==
    /\ wire.format = "interface{}"
    /\ Converted("int64PtrParser", int64PtrParser(wire.doc).err,
                 int64PtrParser(wire.doc).val)

\* ToTrustVector(v)
DoToTrustVector ==
    /\ wire.format = "interface{}"
    /\ \E e \in ExtraKeyOrders(IF wire.doc.k = "map" THEN DOMAIN wire.doc.m ELSE {}) :
          Converted("ToTrustVector",
                    ToTrustVector(wire.doc, [sub |-> <<>>, tee |-> <<>>, ext |-> e]).err,
                    ToTrustVector(wire.doc, [sub |-> <<>>, tee |-> <<>>, ext |-> e]).val)

\* TrustTier.MarshalJSON on a TrustTier
DoTrustTierMarshalJSON ==
    /\ wire.format = "interface{}" /\ wire.doc.k = "TrustTier"
    /\ Converted("TrustTier.MarshalJSON", TrustTier_MarshalJSON(wire.doc.n).err,
                 {TrustTier_MarshalJSON(wire.doc.n).j})

(***************************************************************************)
(* Specifications                                                          *)
(***************************************************************************)
\* the TrustClaim operations on every int8 value
TierInit ==
    claim \in Int8 /\ ar = ZeroAttestationResult /\ wire = NoData /\ last = NoCall
TierNext == DoGetTier
SpecTier == TierInit /\ [][TierNext]_vars

\* validate() and the encoding entry points on the results a caller builds
EncodeInit ==
    claim = NoClaim /\ ar \in EncodeInputs /\ wire = NoData /\ last = NoCall
EncodeNext ==
    \/ DoValidate
    \/ DoMarshalJSON
    \/ DoMarshalJSONIndent
    \/ DoSign
    \/ DoToCBOR
    \/ DoSignCWT
SpecEncode == EncodeInit /\ [][EncodeNext]_vars

\* UpdateStatusFromTrustVector, called any number of times
UpdateInit ==
    claim = NoClaim /\ ar \in UpdateInputs /\ wire = NoData /\ last = NoCall
UpdateNext == DoUpdateStatusFromTrustVector
SpecUpdate == UpdateInit /\ [][UpdateNext]_vars

\* the decoding entry points on bytes from the wire, into a target that is
\* fresh or has been used before
DecodeInit ==
    claim = NoClaim /\ ar \in DecodeTargets /\ wire \in Wires /\ last = NoCall
DecodeNext ==
    \/ DoUnmarshalJSON
    \/ DoVerify
    \/ DoFromCBOR
    \/ DoVerifyCWT
SpecDecode == DecodeInit /\ [][DecodeNext]_vars

\* the conversions on the values a caller or a decoder hands them
ConvertInit ==
    /\ claim = NoClaim /\ ar = ZeroAttestationResult /\ last = NoCall
    /\ wire \in {Value(v) : v \in ConvertInputs}
ConvertNext ==
    \/ DoToTrustTier
    \/ DoToTrustClaim
    \/ DoInt64PtrParser
    \/ DoToTrustVector
    \/ DoTrustTierMarshalJSON
SpecConvert == ConvertInit /\ [][ConvertNext]_vars

(***************************************************************************)
(* Properties                                                              *)
(***************************************************************************)
\* C1: for every claim value exactly one of IsNone, IsAffirming, IsWarning,
\* IsContraindicated holds, and GetTier does not reach its panic branch.
TierPartition ==
    last.op = "GetTier" =>
        /\ ~last.panic
        /\ Cardinality({i \in 1..4 :
              <<IsNone(claim), IsAffirming(claim), IsWarning(claim),
                IsContraindicated(claim)>>[i]}) = 1
TierPartitionWitness ==
    last.op = "GetTier" /\ claim = MinInt8 /\ last.tier = TrustTierContraindicated

\* C2: GetTier returns the tier of the range the value lies in.
TierOfRange(v) ==
    IF v \in -1..1 THEN 0
    ELSE IF v \in (-32..-2) \cup (2..31) THEN 2
    ELSE IF v \in (-96..-33) \cup (32..95) THEN 32
    ELSE 96
GetTierMatchesRanges ==
    last.op = "GetTier" => ~last.panic /\ last.tier = TierOfRange(claim)
GetTierMatchesRangesWitness ==
    last.op = "GetTier" /\ claim = -33 /\ last.tier = TrustTierWarning

\* C4: an encoding entry point called on a result that validate() rejects
\* returns validate()'s error and no bytes; bytes come out only of a result
\* that validate() accepts.
EncodeOps == {"MarshalJSON", "MarshalJSONIndent", "Sign", "ToCBOR", "SignCWT"}
EncodeFailsClosed ==
    last.op \in EncodeOps =>
        /\ validate(ar, last.ord) # "" =>
              /\ ~last.panic
              /\ last.err = validate(ar, last.ord)
              /\ last.out = NoBytes
        /\ last.out # NoBytes => validate(ar, last.ord) = ""
EncodeFailsClosedWitness ==
    /\ last.op = "SignCWT"
    /\ KeyFits(last.alg, last.key)
    /\ ar.IssuedAt # {} /\ ar.Profile = {testUnsupportedProfile}
    /\ last.err # "" /\ last.out = NoBytes

\* C5: validate() returns nil exactly when the profile is one of the two
\* supported ones, IssuedAt and VerifierID are present, the nonce is absent
\* or of a legal length, there is at least one submodule and every appraisal
\* has a status.
WellFormed(o) ==
    /\ o.Profile # {}
    /\ \A p \in o.Profile : p \in {EatProfile, EatTrusteeProfile}
    /\ o.IssuedAt # {}
    /\ o.VerifierID # {}
    /\ \A n \in o.Nonce : Len(n) \in MinNonceLen..MaxNonceLen
    /\ DOMAIN o.Submods # {}
    /\ \A k \in DOMAIN o.Submods : o.Submods[k].Status # {}
ValidateIffWellFormed ==
    last.op = "validate" => (last.err = "" <=> WellFormed(ar))
ValidateIffWellFormedWitness ==
    /\ last.op = "validate" /\ last.err = ""
    /\ ar.Profile = {EatTrusteeProfile} /\ ar.Nonce # {}
    /\ Cardinality(DOMAIN ar.Submods) > 1

\* C6: validate() reports every problem there is: the missing claims in the
\* order eat_profile, iat, verifier-id, submods, then the invalid values with
\* one entry per invalid submodule, the two lists joined by "; ".
MandatoryClaims ==
    <<[name |-> "'eat_profile'", field |-> "Profile"],
      [name |-> "'iat'", field |-> "IssuedAt"],
      [name |-> "'verifier-id'", field |-> "VerifierID"],
      [name |-> "'submods' (at least one appraisal must be present)",
       field |-> "Submods"]>>
IsMissing(o, c) ==
    IF c.field = "Submods" THEN DOMAIN o.Submods = {} ELSE o[c.field] = {}
ExpectedMissing(o) ==
    LET absent == SelectSeq(MandatoryClaims, LAMBDA c : IsMissing(o, c))
    IN  [i \in 1..Len(absent) |-> absent[i].name]
ExpectedInvalid(o) ==
    {"eat_profile (" \o p \o ")" :
        p \in {q \in o.Profile : q \notin {EatProfile, EatTrusteeProfile}}}
    \cup {"eat_nonce (" \o ToString(Len(n)) \o " bytes)" :
        n \in {q \in o.Nonce : Len(q) \notin MinNonceLen..MaxNonceLen}}
    \cup {"submods[" \o k \o "]: missing mandatory 'ear.status'" :
        k \in {q \in DOMAIN o.Submods : o.Submods[q].Status = {}}}
ValidateReportsEveryProblem ==
    last.op = "validate" =>
        /\ last.missing = ExpectedMissing(ar)
        /\ Range(last.invalid) = ExpectedInvalid(ar)
        /\ Len(last.invalid) = Cardinality(ExpectedInvalid(ar))
        /\ last.err =
             Join((IF last.missing = <<>> THEN <<>>
                   ELSE <<"missing mandatory " \o Join(last.missing, ", ")>>)
                  \o (IF last.invalid = <<>> THEN <<>>
                      ELSE <<"invalid value(s) for "
                              \o Join(last.invalid, ", ")>>), "; ")
ValidateReportsEveryProblemWitness ==
    /\ last.op = "validate"
    /\ Len(last.missing) >= 2
    /\ Len(last.invalid) > Cardinality(ar.Profile) + Cardinality(ar.Nonce)
    /\ last.err = "missing mandatory 'iat', 'verifier-id'; invalid value(s) for "
                  \o Join(last.invalid, ", ")

\* C7: UpdateStatusFromTrustVector never loosens a status: an appraisal whose
\* Status was none, affirming, warning or contraindicated before the call has
\* a Status with a tier code at least as high after it.
TrustTiers ==
    {TrustTierNone, TrustTierAffirming, TrustTierWarning, TrustTierContraindicated}
UpdateMonotonic ==
    last.op = "UpdateStatusFromTrustVector" =>
        \A k \in DOMAIN last.before.Submods :
            \A b \in last.before.Submods[k].Status :
                b \in TrustTiers =>
                    /\ ar.Submods[k].Status # {}
                    /\ \A a \in ar.Submods[k].Status : a >= b
UpdateMonotonicWitness ==
    /\ last.op = "UpdateStatusFromTrustVector" /\ ~last.panic
    /\ \E k \in DOMAIN ar.Submods :
          /\ last.before.Submods[k].Status = {TrustTierWarning}
          /\ \E v \in ar.Submods[k].TrustVector :
                {GetTier(v[c]).tier : c \in DOMAIN v}
                    = {TrustTierNone, TrustTierAffirming}
          /\ ar.Submods[k].Status = {TrustTierWarning}
    /\ \E k \in DOMAIN ar.Submods :
          /\ last.before.Submods[k].Status = {TrustTierAffirming}
          /\ ar.Submods[k].Status = {TrustTierContraindicated}

\* C8: UpdateStatusFromTrustVector is idempotent: after a call that returned,
\* a second call, whatever the order it visits submodules and claims in,
\* returns too and leaves the result as the first call left it.
UpdateIdempotent ==
    (last.op = "UpdateStatusFromTrustVector" /\ ~last.panic) =>
        \A ord \in SubmodOrders(ar) : \A co \in ClaimOrders :
            AttestationResult_UpdateStatusFromTrustVector(ar, ord, co)
                = [panic |-> FALSE, sm |-> ar.Submods]
UpdateIdempotentWitness ==
    /\ last.op = "UpdateStatusFromTrustVector" /\ ~last.panic
    /\ Cardinality(DOMAIN ar.Submods) > 1
    /\ \A k \in DOMAIN ar.Submods :
          last.before.Submods[k].Status # ar.Submods[k].Status

\* C3: a decoding entry point that returns success leaves a result that
\* validate() accepts.
DecodeOps == {"UnmarshalJSON", "FromCBOR", "Verify", "VerifyCWT"}
Succeeded == ~last.panic /\ last.err = ""
DecodeSuccessValidates ==
    (last.op \in DecodeOps /\ Succeeded) => validate(ar, last.ord.sub) = ""

\* C9: after UnmarshalJSON or Verify has returned success the target is what
\* the same call leaves in a zero-valued target: nothing of what the target
\* held before is left.
FreshDecode ==
    IF last.op = "UnmarshalJSON"
    THEN UnmarshalJSON(ZeroAttestationResult, wire, last.ord)
    ELSE Verify(ZeroAttestationResult, wire, last.alg, last.key, last.ord)
DecodeIsFresh ==
    (last.op \in {"UnmarshalJSON", "Verify"} /\ Succeeded) => ar = FreshDecode.o

\* C10: MarshalJSON of a result that validate() accepts succeeds, and
\* UnmarshalJSON of its output into a zero-valued target succeeds and yields
\* the result again.
RoundTripOrders == {[sub |-> s, tee |-> t, ext |-> e] :
                      s \in Perms(DOMAIN ar.Submods),
                      t \in TeeInfoOrders(Range(TeeInfoKeys)),
                      e \in ExtraKeyOrders(Range(ExtraKeyNames))}
JSONRoundTrip ==
    (last.op = "MarshalJSON" /\ validate(ar, last.ord) = "") =>
        /\ ~last.panic /\ last.err = "" /\ last.out # NoBytes
        /\ \A w \in last.out : \A ord \in RoundTripOrders :
              UnmarshalJSON(ZeroAttestationResult, w, ord) = Decoded(ar, "")

\* C11: Sign of a result that validate() accepts, under an algorithm and a key
\* that fit, succeeds, and Verify of the token under the same algorithm and
\* key into a zero-valued target succeeds and yields the result again.
SignVerifyRoundTrip ==
    (last.op = "Sign" /\ validate(ar, last.ord) = "" /\ KeyFits(last.alg, last.key)) =>
        /\ ~last.panic /\ last.err = "" /\ last.out # NoBytes
        /\ \A w \in last.out : \A ord \in RoundTripOrders :
              Verify(ZeroAttestationResult, w, last.alg, last.key, ord)
                  = Decoded(ar, "")

\* C12: Verify of a token that differs in some byte from the token its signer
\* made fails with the error "failed verifying JWT message", whatever the
\* altered token carries and whatever algorithm and key are given; it neither
\* succeeds nor panics, and the target is left as it was.
Tampered == wire.format = "JWT" /\ ~wire.intact
TamperDetected ==
    (last.op = "Verify" /\ Tampered) =>
        /\ ~last.panic
        /\ last.err = "failed verifying JWT message"
        /\ ar = last.before
TamperDetectedWitness ==
    /\ last.op = "Verify" /\ Tampered
    /\ wire.alg = last.alg /\ wire.signer = last.key
    /\ wire.payload = MapV(testBaseDoc)
    /\ last.err = "failed verifying JWT message"

\* C13: decoding the empty claims-set, through UnmarshalJSON or through Verify
\* of a correctly signed token whose payload is {}, returns one error that
\* names the four mandatory top-level claims.
EmptyClaimsDecoded ==
    \/ last.op = "UnmarshalJSON" /\ wire.format = "JSON" /\ wire.doc = MapV(EmptyMap)
    \/ /\ last.op = "Verify" /\ wire.format = "JWT" /\ wire.intact
       /\ wire.payload = MapV(EmptyMap)
       /\ wire.alg = last.alg /\ wire.signer = last.key
EmptyClaimsNameEveryMandatory ==
    EmptyClaimsDecoded =>
        /\ ~last.panic
        /\ last.err = "missing mandatory 'eat_profile', 'ear.verifier-id', 'iat', 'submods'"

\* C14: a decoding call that fails returns the same error whatever the order
\* in which the ranges over the Go maps (the submodules, the keys of tee-info,
\* the unexpected keys) visit their entries: UnmarshalJSON of the same bytes
\* into the same target gives the error of the call that was made.
DecodeErrorDeterministic ==
    last.op = "UnmarshalJSON" =>
        \A ord \in DecodeOrders(last.before, wire) :
            UnmarshalJSON(last.before, wire, ord).err = last.err

(***************************************************************************)
(* validate() on nonces of the lengths around the limits                   *)
(***************************************************************************)
\* a nonce of n bytes
RECURSIVE NonceOfLen(_)
NonceOfLen(n) == IF n = 0 THEN "" ELSE NonceOfLen(n - 1) \o ToString(n % 10)
NonceLens == {0, MinNonceLen - 1, MinNonceLen, MinNonceLen + 1,
              MaxNonceLen - 1, MaxNonceLen, MaxNonceLen + 1}
NonceInputs ==
    {[Header(p, i, v, {NonceOfLen(n)}) EXCEPT !.Submods = sm] :
        p \in {{EatProfile}, {testUnsupportedProfile}},
        i \in {{}, {testIAT}},
        v \in {{}, {testVerifierID}},
        n \in NonceLens,
        sm \in {EmptyMap} \cup [{SubmodName(1)} -> {testAppraisal}]}
NonceInit ==
    claim = NoClaim /\ ar \in NonceInputs /\ wire = NoData /\ last = NoCall
NonceNext == DoValidate
SpecNonce == NonceInit /\ [][NonceNext]_vars

\* C15: validate() lists a nonce as invalid exactly when its length is below
\* 10 or above 74 bytes, and the entry gives the length; a result that is
\* well-formed but for its nonce validates exactly when the length is in
\* the range 10 to 74.
NonceEntry(n) == "eat_nonce (" \o ToString(n) \o " bytes)"
LegalTiers == {0, 2, 32, 96}
IsIntegerInput(v) ==
    \/ v.k \in IntKinds
    \/ v.k = "float64" /\ v.f = 0
    \/ v.k \in {"json.Number", "string", "bytes"} /\ Atoi(v.s).ok
IntegerOf(v) == IF v.k \in {"json.Number", "string", "bytes"} THEN Atoi(v.s).i ELSE v.n
IntegerText(v) ==
    IF IsHuge(v) \/ v.k \in {"json.Number", "string", "bytes"} THEN v.s
    ELSE ToString(v.n)
NamesTheValue(err, v) ==
    err \in {"not a valid TrustTier value: " \o IntegerText(v),
             "not a valid TrustTier value: " \o IntegerText(v)
                 \o " (" \o ToString(IntegerOf(v)) \o ")",
             "not a valid TrustTier value: " \o IntegerText(v)
                 \o ".000000 (" \o ToString(IntegerOf(v)) \o ")"}
FloatOps == {"ToTrustTier", "ToTrustClaim", "int64PtrParser"}
FractionRejected ==
    (last.op \in FloatOps /\ wire.doc.k = "float64" /\ wire.doc.f # 0) =>
        last.err # ""

\* C17 as the code has it: a float64 is truncated toward zero and the integer
\* that is left is converted as an int is: the same success or failure and the
\* same value, with or without a fraction.
AsInt(op, n) ==
    CASE op = "ToTrustTier" ->
           [ok |-> ToTrustTier(IntV("int", n)).err = "",
            val |-> ToTrustTier(IntV("int", n)).val]
      [] op = "ToTrustClaim" ->
           [ok |-> ToTrustClaim(IntV("int", n)).err = "",
            val |-> {ToTrustClaim(IntV("int", n)).claim}]
      [] op = "int64PtrParser" ->
           [ok |-> int64PtrParser(IntV("int", n)).err = "",
            val |-> int64PtrParser(IntV("int", n)).val]
FloatTruncated ==
    (last.op \in FloatOps /\ wire.doc.k = "float64") =>
        /\ (last.err = "") = AsInt(last.op, wire.doc.n).ok
        /\ last.val = AsInt(last.op, wire.doc.n).val
FloatTruncatedWitness ==
    /\ last.op = "ToTrustTier"
    /\ wire.doc = FloatV(2, 5)
    /\ last.err = "" /\ last.val = {TrustTierAffirming}


\* C18 as stated: ToTrustClaim of an integer of any integer type, or of a
\* string of decimal digits, returns that integer when it lies in -128..127
\* and otherwise fails with "out of range for TrustClaim: <n>".
DecimalText(s) == Atoi(s).ok \/ s = HugeUintV("uint64").s
IsClaimInteger(v) ==
    \/ v.k \in IntKinds
    \/ v.k \in {"string", "bytes"} /\ DecimalText(v.s)
FitsInt64(v) == ~IsHuge(v) /\ (v.k \in {"string", "bytes"} => Atoi(v.s).ok)
FitsInt8(v) == FitsInt64(v) /\ IntegerOf(v) \in Int8
OutOfRangeMessage ==
    (last.op = "ToTrustClaim" /\ IsClaimInteger(wire.doc)) =>
        IF FitsInt8(wire.doc)
        THEN last.err = "" /\ last.val = {IntegerOf(wire.doc)}
        ELSE last.err = "out of range for TrustClaim: " \o IntegerText(wire.doc)

\* C18 as the code has it: the integer is returned when it lies in -128..127;
\* otherwise the claim returned is NoClaim, never the integer modulo 256, and
\* the error gives the integer: "out of range for TrustClaim: <n>" when <n>
\* fits an int64, "not a valid TrustClaim value: <n>" for a uint or uint64
\* above math.MaxInt64, and "not a valid TrustClaim value: "<n>"" (quoted) for
\* a string of digits above the int64 range.
ClaimNeverWraps ==
    (last.op = "ToTrustClaim" /\ IsClaimInteger(wire.doc)) =>
        IF FitsInt8(wire.doc)
        THEN last.err = "" /\ last.val = {IntegerOf(wire.doc)}
        ELSE /\ last.val = {NoClaim}
             /\ last.err =
                  IF FitsInt64(wire.doc)
                  THEN "out of range for TrustClaim: " \o IntegerText(wire.doc)
                  ELSE IF IsHuge(wire.doc)
                  THEN "not a valid TrustClaim value: " \o IntegerText(wire.doc)
                  ELSE "not a valid TrustClaim value: \""
                           \o IntegerText(wire.doc) \o "\""
ClaimNeverWrapsWitness ==
    /\ last.op = "ToTrustClaim"
    /\ wire.doc = IntV("uint16", 258)
    /\ last.err = "out of range for TrustClaim: 258" /\ last.val = {NoClaim}


\* C19: ToTrustClaim of a string that is not a number folds case and the
\* separators space, '-' and '.' and looks the result up in the tag tables:
\* every spelling of the tag unsafe_hw yields the claim 32; whatever the order
\* in which the tables are searched the result is the same, and two entries
\* of the tables with the same tag carry the same claim.
HwSpellings == {"unsafe_hw", "Unsafe HW", "unsafe-hw", "unsafe.hw", "UNSAFE_HW",
                "UnsafeHW", "unsafeHw"}
TableOrders ==
    {[i \in 1..Len(detailsMaps) |-> ((i + k) % Len(detailsMaps)) + 1] :
        k \in 0..(Len(detailsMaps) - 1)}
    \cup {[i \in 1..Len(detailsMaps) |-> Len(detailsMaps) + 1 - i]}
IsTagInput(v) == v.k \in {"string", "bytes"} /\ ~Atoi(v.s).ok
ClaimCanonical ==
    /\ (last.op = "ToTrustClaim" /\ wire.doc.k = "string"
        /\ wire.doc.s \in HwSpellings) =>
          last.err = "" /\ last.val = {32}
    /\ (last.op = "ToTrustClaim" /\ IsTagInput(wire.doc)) =>
          \A order \in TableOrders :
              /\ searchTags(Canon(wire.doc.s), order, wire.doc.s).err = last.err
              /\ {searchTags(Canon(wire.doc.s), order, wire.doc.s).claim} = last.val
    /\ \A i, j \in 1..Len(detailsMaps) :
          \A e1 \in detailsMaps[i], e2 \in detailsMaps[j] :
              e1.tag = e2.tag => e1.claim = e2.claim
ClaimCanonicalWitness ==
    /\ last.op = "ToTrustClaim"
    /\ wire.doc = StrV("Unsafe HW")
    /\ last.err = "" /\ last.val = {32}


\* C20: no operation panics: UpdateStatusFromTrustVector, the encoders (which
\* call validate() and AsMap()) and the decoding entry points return, with an
\* error or without, on every result the data model allows, one whose
\* appraisals have no trust vector included.
PanicOps == {"UpdateStatusFromTrustVector"} \cup EncodeOps \cup DecodeOps
NoOperationPanics == last.op \in PanicOps => ~last.panic


\* C21: Sign and SignCWT take the algorithm from the caller: called on a
\* result that validate() accepts, with any supported algorithm and a key of
\* that algorithm, they produce a token whose protected header names the
\* algorithm that was passed.
SigningOps == {"Sign", "SignCWT"}
Signable ==
    /\ last.op \in SigningOps
    /\ KeyFits(last.alg, last.key)
    /\ IF last.op = "Sign" THEN MarshalJSON(ar, last.ord).out # NoBytes
       ELSE ToCBOR(ar, last.ord).out # NoBytes
AlgorithmFromCaller ==
    Signable =>
        /\ last.out # NoBytes
        /\ \A token \in last.out : token.alg = last.alg


(***************************************************************************)
(* populateStructFromMap on the three structs decoded from claims          *)
(***************************************************************************)
\* the claims-sets given to populateStructFromMap, with the struct they are
\* for: those of the decoders, and some with problems of several kinds
Claims(T, m) == [format |-> "claims", T |-> T, doc |-> MapV(m)]
ProblemDocs ==
    {WithClaim(WithClaim(WithClaim(testBaseDoc, "iat", StrV("now")),
                         "eat_profile", Absent), "bogus", StrV("x")),
     WithClaim(WithClaim(WithClaim(testBaseDoc, "iat", StrV("now")),
                         "eat_profile", FloatV(7, 0)), "submods", Absent),
     WithClaim(WithClaim(EmptyMap, "iat", NilV), "submods", StrV("x"))}
VerifierIDDocs ==
    {testVerifierIDDoc, EmptyMap,
     WithClaim(testVerifierIDDoc, "developer", Absent),
     WithClaim(testVerifierIDDoc, "build", NilV),
     WithClaim(testVerifierIDDoc, "bogus", StrV("x")),
     WithClaim(WithClaim(testVerifierIDDoc, "bogus", StrV("x")), "bogus2", StrV("y")),
     WithClaim(WithClaim(WithClaim(testVerifierIDDoc, "developer", Absent),
                         "build", FloatV(7, 0)), "bogus", StrV("x")),
     WithClaim(WithClaim(WithClaim(EmptyMap, "developer", NilV),
                         "build", FloatV(7, 0)), "bogus2", StrV("x"))}
PopulateInputs ==
    {Claims("AttestationResult", d) :
        d \in DocsWithin(MaxDeviations) \cup {EmptyMap} \cup ProblemDocs}
    \cup {Claims("Appraisal", a.m) : a \in {d \in AppraisalDocs : d.k = "map"}}
    \cup {Claims("Appraisal",
                 WithClaim(WithClaim(EmptyMap, "ear.appraisal-policy-id", FloatV(7, 0)),
                           "bogus", StrV("x")))}
    \cup {Claims("VerifierIdentity", d) : d \in VerifierIDDocs}

\* the orders the ranges over the maps of a claims-set can take
PopulateOrders(T, m) ==
    {[sub |-> s, tee |-> t, ext |-> e] :
        s \in Perms(MapKeysAt(m, "submods")),
        t \in TeeInfoOrders(MapKeysAt(m, "ear.veraison.tee-info")),
        e \in ExtraKeyOrders(IF T = "VerifierIdentity" THEN DOMAIN m
                             ELSE MapKeysAt(m, "ear.verifier-id"))}

\* the parser that the caller of populateStructFromMap selects for a claim
ParserOf(T, name, rawVal, ord) ==
    CASE T = "AttestationResult" -> AttestationResultParser(name, rawVal, ord)
      [] T = "Appraisal" -> AppraisalParser(name, rawVal, ord)
      [] T = "VerifierIdentity" -> VerifierIdentityParser(name, rawVal)
IgnoreUnexpected(T) == T # "VerifierIdentity"
ZeroOf(T) ==
    CASE T = "AttestationResult" -> ZeroAttestationResult
      [] T = "Appraisal" -> ZeroAppraisal
      [] T = "VerifierIdentity" -> ZeroVerifierIdentity

\* populateStructFromMap(&dest, m, "json", parsers, stringPtrParser, ignore)
\* as populateFromMap, ToAppraisal and ToVerifierIdentity call it
PopulateCall(T, m, ord, r) ==
    /\ last' = [op |-> "populateStructFromMap", T |-> T, ord |-> ord,
                panic |-> r.panic, err |-> r.err, dest |-> r.dest]
    /\ UNCHANGED <<claim, ar, wire>>
DoPopulateStructFromMap ==
    /\ wire.format = "claims"
    /\ \E ord \in PopulateOrders(wire.T, wire.doc.m) :
          PopulateCall(wire.T, wire.doc.m, ord,
                       populateStructFromMap(
                           wire.T, ZeroOf(wire.T), wire.doc.m,
                           [k \in DOMAIN wire.doc.m |->
                               ParserOf(wire.T, k, wire.doc.m[k], ord)],
                           IgnoreUnexpected(wire.T), ord))

PopulateInit ==
    claim = NoClaim /\ ar = ZeroAttestationResult /\ wire \in PopulateInputs
    /\ last = NoCall
PopulateNext == DoPopulateStructFromMap
SpecPopulate == PopulateInit /\ [][PopulateNext]_vars

\* C22: a call of populateStructFromMap that returns, returns nil exactly
\* when no mandatory claim is absent, no selected parser failed and, unless
\* unexpected keys are ignored, the map has no key that is not a wire name of
\* the struct, embedded structs included; otherwise every field has been
\* processed and the one error lists all the missing claims, then all the
\* invalid ones, then (unless ignored) the unexpected keys, joined by "; ".
WireNames(T) == {f.tagSpec.Name : f \in Range(TaggedFields(T, ""))}
AbsentMandatory(T, m) ==
    SelectSeq(TaggedFields(T, ""),
              LAMBDA f : f.tagSpec.IsMandatory /\ f.tagSpec.Name \notin DOMAIN m)
FailedToParse(T, m, ord) ==
    SelectSeq(TaggedFields(T, ""),
              LAMBDA f : /\ f.tagSpec.Name \in DOMAIN m
                         /\ ParserOf(T, f.tagSpec.Name, m[f.tagSpec.Name], ord).err # "")
Unexpected(T, m) == IF IgnoreUnexpected(T) THEN {} ELSE (DOMAIN m) \ WireNames(T)
ExpectedParts(T, m, ord) ==
    (IF Len(AbsentMandatory(T, m)) = 0 THEN <<>>
     ELSE <<"missing mandatory "
            \o Join([i \in 1..Len(AbsentMandatory(T, m)) |->
                        "'" \o AbsentMandatory(T, m)[i].tagSpec.Name \o "'"], ", ")>>)
    \o (IF Len(FailedToParse(T, m, ord)) = 0 THEN <<>>
        ELSE <<"invalid value(s) for "
               \o Join([i \in 1..Len(FailedToParse(T, m, ord)) |->
                           "'" \o FailedToParse(T, m, ord)[i].tagSpec.Name \o "' ("
                           \o ParserOf(T, FailedToParse(T, m, ord)[i].tagSpec.Name,
                                       m[FailedToParse(T, m, ord)[i].tagSpec.Name],
                                       ord).err \o ")"], ", ")>>)
    \o (IF Unexpected(T, m) = {} THEN <<>>
        ELSE <<"unexpected: " \o Join(KeysInOrder(Unexpected(T, m), ord.ext), ", ")>>)
FieldOf(dest, f) == IF f.within = "" THEN dest[f.name] ELSE dest[f.within][f.name]
PopulateReportsAll ==
    (last.op = "populateStructFromMap" /\ ~last.panic) =>
        /\ last.err = "" <=>
              /\ Len(AbsentMandatory(last.T, wire.doc.m)) = 0
              /\ Len(FailedToParse(last.T, wire.doc.m, last.ord)) = 0
              /\ Unexpected(last.T, wire.doc.m) = {}
        /\ last.err = Join(ExpectedParts(last.T, wire.doc.m, last.ord), "; ")
        /\ \A f \in Range(TaggedFields(last.T, "")) :
              (/\ f.tagSpec.Name \in DOMAIN wire.doc.m
               /\ ParserOf(last.T, f.tagSpec.Name,
                           wire.doc.m[f.tagSpec.Name], last.ord).err = "") =>
                  FieldOf(last.dest, f)
                      = ParserOf(last.T, f.tagSpec.Name,
                                 wire.doc.m[f.tagSpec.Name], last.ord).val
PopulateReportsAllWitness ==
    /\ last.op = "populateStructFromMap" /\ ~last.panic
    /\ last.T = "VerifierIdentity"
    /\ last.err = "missing mandatory 'developer'; invalid value(s) for 'build' (not a string); unexpected: bogus"


\* C23: UnmarshalJSON, when it returns, returns the error of the first phase
\* that fails: of the JSON decoding, and then the target is as it was; else
\* of populateFromMap; else, populateFromMap having reported nothing, what
\* validate() says of the populated target.
Structural(w) == w.format # "JSON" \/ w.doc.k \notin {"map", "nil"}
PhaseTwo(o, w, ord) == populateFromMap(o, WireClaims(w), ord)
UnmarshalPhases ==
    (last.op = "UnmarshalJSON" /\ ~last.panic) =>
        IF Structural(wire)
        THEN /\ last.err # ""
             /\ ar = last.before
        ELSE IF PhaseTwo(last.before, wire, last.ord).err # ""
        THEN last.err = PhaseTwo(last.before, wire, last.ord).err
        ELSE /\ ar = PhaseTwo(last.before, wire, last.ord).dest
             /\ last.err = validate(ar, last.ord.sub)
UnmarshalPhasesWitness ==
    /\ last.op = "UnmarshalJSON"
    /\ wire.format = "JSON" /\ wire.doc = ArrV
    /\ last.before = testFullResult /\ ar = testFullResult
    /\ last.err # ""


\* C24: after an UpdateStatusFromTrustVector that returns, the Status of
\* every Appraisal is the highest tier code among its previous Status and the
\* tiers of the 8 claims of its trust vector: it is not below the tier of any
\* claim, and claims of the none tier (-1, 0, 1) leave a Status that was a
\* tier as it was.
MaxOf(S) == CHOOSE x \in S : \A y \in S : y <= x
ClaimTiers(v) == {TierOfRange(v[c]) : c \in DOMAIN v}
StatusIsLeastTrustworthy ==
    (last.op = "UpdateStatusFromTrustVector" /\ ~last.panic) =>
        \A k \in DOMAIN ar.Submods :
            \A b \in last.before.Submods[k].Status :
                \A v \in last.before.Submods[k].TrustVector :
                    /\ DOMAIN v = Range(TrustVectorKeys)
                    /\ ar.Submods[k].Status = {MaxOf({b} \cup ClaimTiers(v))}
                    /\ \A a \in ar.Submods[k].Status :
                          \A c \in DOMAIN v : a >= TierOfRange(v[c])
                    /\ (b \in TrustTiers /\ ClaimTiers(v) = {TrustTierNone}) =>
                          ar.Submods[k].Status = {b}
StatusIsLeastTrustworthyWitness ==
    /\ last.op = "UpdateStatusFromTrustVector" /\ ~last.panic
    /\ \E k \in DOMAIN ar.Submods :
          /\ last.before.Submods[k].Status = {TrustTierAffirming}
          /\ \E v \in last.before.Submods[k].TrustVector :
                ClaimTiers(v) = {TrustTierNone, TrustTierWarning, TrustTierContraindicated}
          /\ ar.Submods[k].Status = {TrustTierContraindicated}


\* C29: the outcome of an UpdateStatusFromTrustVector that returns does not
\* depend on the order in which the submodules and the claims of each trust
\* vector are visited: every order leaves every Appraisal with the Status the
\* call left.
UpdateOrderIndependent ==
    (last.op = "UpdateStatusFromTrustVector" /\ ~last.panic) =>
        \A ord \in SubmodOrders(last.before) : \A co \in ClaimOrders :
            AttestationResult_UpdateStatusFromTrustVector(last.before, ord, co)
                = [panic |-> FALSE, sm |-> ar.Submods]
UpdateOrderIndependentWitness ==
    /\ last.op = "UpdateStatusFromTrustVector" /\ ~last.panic
    /\ Cardinality(DOMAIN ar.Submods) > 1
    /\ \E k \in DOMAIN ar.Submods :
          /\ last.before.Submods[k].Status = {TrustTierNone}
          /\ \E v \in last.before.Submods[k].TrustVector :
                /\ TierOfRange(v["instance-identity"]) = TrustTierContraindicated
                /\ TierOfRange(v["sourced-data"]) = TrustTierWarning
          /\ ar.Submods[k].Status = {TrustTierContraindicated}


(***************************************************************************)
(* structAsMap on the structs of the package and of its test               *)
(***************************************************************************)
\* the values of MyStruct: every pointer nil or set, the map and the slice
\* empty or with one element
myMapableInner == [Key |-> "inner"]
MyStructs ==
    {[FieldOne |-> f1, FieldTwo |-> "second field", FieldThree |-> f3,
      FieldFour |-> f4, FieldFive |-> myMapableInner, FieldSix |-> "sixth field",
      FieldSeven |-> "Seventh field", FieldEight |-> f8, FieldNine |-> f9,
      MyEmbedded |-> [FieldOne |-> fe]] :
        f1 \in {{}, {"first field"}}, f3 \in {{}, {1337}},
        f4 \in {{}, {myMapableInner}},
        f8 \in {EmptyMap, [k \in {"field-eight-sub-one"} |-> myMapableInner]},
        f9 \in {<<>>, <<myMapableInner>>},
        fe \in {{}, {"embedded field"}}}
StructValue(T, s) == [format |-> "struct", T |-> T, val |-> s]
AsMapInputs ==
    {StructValue("MyStruct", s) : s \in MyStructs}
    \cup {StructValue("AttestationResult", o) :
             o \in RichInputs \cup {ZeroAttestationResult, testFullResult}}
    \cup {StructValue("Appraisal", a) :
             a \in {ZeroAppraisal, testAppraisal, testFullAppraisal}}
    \cup {StructValue("VerifierIdentity", v) :
             v \in {ZeroVerifierIdentity, testVerifierID,
                    [testVerifierID EXCEPT !.Build = {}]}}

\* structAsMap(s, "json")
DoStructAsMap ==
    /\ wire.format = "struct"
    /\ last' = [op |-> "structAsMap", err |-> structAsMap(wire.T, wire.val).err,
                m |-> structAsMap(wire.T, wire.val).m]
    /\ UNCHANGED <<claim, ar, wire>>

AsMapInit ==
    claim = NoClaim /\ ar = ZeroAttestationResult /\ wire \in AsMapInputs
    /\ last = NoCall
AsMapNext == DoStructAsMap
SpecAsMap == AsMapInit /\ [][AsMapNext]_vars

\* C25: the keys of structAsMap(s) are the wire names of the json-tagged
\* fields of s and of its embedded structs, in one flat map, less those of
\* the optional pointer fields that are nil; a mandatory pointer field that
\* is nil maps to null; a field without a json tag gives no key.
FieldValue(s, f) == IF f.within = "" THEN s[f.name] ELSE s[f.within][f.name]
IsNilPointer(s, f) == f.type.kind = "ptr" /\ FieldValue(s, f) = {}
IsEmbedded(f) == f.tag = <<>> /\ f.type.kind = "struct" /\ f.name = f.type.elem
Declared(f, within) ==
    [name |-> f.name, within |-> within, type |-> f.type, wire |-> f.tag[1],
     optional |-> "omitempty" \in Range(Tail(f.tag))]
JsonFields(T) ==
    {Declared(f, "") : f \in {g \in Range(StructFields(T)) : g.tag # <<>>}}
    \cup UNION {{Declared(f, e.name) :
                    f \in {g \in Range(StructFields(e.type.elem)) : g.tag # <<>>}} :
                e \in {g \in Range(StructFields(T)) : IsEmbedded(g)}}
EmittedNames(T, s) ==
    {f.wire : f \in {g \in JsonFields(T) : ~IsNilPointer(s, g) \/ ~g.optional}}
UntaggedNames(T) ==
    {f.name : f \in {g \in Range(StructFields(T)) : g.tag = <<>>}}
AsMapKeys ==
    last.op = "structAsMap" =>
        /\ last.err = ""
        /\ DOMAIN last.m = EmittedNames(wire.T, wire.val)
        /\ \A f \in JsonFields(wire.T) :
              /\ (IsNilPointer(wire.val, f) /\ ~f.optional) => last.m[f.wire] = NilV
              /\ (IsNilPointer(wire.val, f) /\ f.optional) => f.wire \notin DOMAIN last.m
              /\ ~IsNilPointer(wire.val, f) => last.m[f.wire] # NilV
        /\ UntaggedNames(wire.T) \cap DOMAIN last.m = {}
AsMapKeysWitness ==
    /\ last.op = "structAsMap" /\ wire.T = "MyStruct"
    /\ wire.val.FieldOne = {} /\ wire.val.FieldFour = {}
    /\ wire.val.FieldThree # {} /\ wire.val.MyEmbedded.FieldOne # {}
    /\ wire.val.FieldEight = EmptyMap /\ wire.val.FieldNine = <<>>
    /\ DOMAIN last.m = {"field-one", "field-two", "field-three", "field-five",
                        "field-eight", "field-nine", "embedded-field-one"}
    /\ last.m["field-one"] = NilV


\* C26: ToTrustVector of a map fails when the map has a key that is not one
\* of the 8 slot names or a value for which ToTrustClaim returns an error;
\* otherwise it succeeds, every slot named in the map holds the claim
\* ToTrustClaim makes of its value, and every other slot holds NoClaim.
SlotNames == Range(TrustVectorKeys)
Coercible(m) == \A k \in DOMAIN m : ToTrustClaim(m[k]).err = ""
UnsupportedShapes == {"bool", "nil", "array", "map"}
CoercionRejectsShapes ==
    (last.op \in {"ToTrustClaim", "ToTrustTier"}
     /\ wire.doc.k \in UnsupportedShapes) =>
        last.err # ""

(***************************************************************************)
(* Claim descriptions                                                      *)
(***************************************************************************)

\* the short and long texts of the details maps, in the order of detailsMaps
Text(c, s, l) == [claim |-> c, short |-> s, long |-> l]
detailsTexts ==
    << {Text(2, "all recognized and approved",
             "The configuration is a known and approved config."),
        Text(3, "no known vulnerabilities",
             "The configuration includes or exposes no known vulnerabilities"),
        Text(32, "known vulnerabilities",
             "The configuration includes or exposes known vulnerabilities."),
        Text(96, "unacceptable security vulnerabilities",
             "The configuration is unsupportable as it exposes unacceptable security vulnerabilities"),
        Text(99, "cryptographic validation failed",
             "Cryptographic validation of the Evidence has failed.")},
       {Text(2, "recognized and approved boot- and run-time",
             "Only a recognized genuine set of approved executables, scripts, files, and/or objects have been loaded during and after the boot process."),
        Text(3, "recognized and approved boot-time",
             "Only a recognized genuine set of approved executables have been loaded during the boot process."),
        Text(32, "recognized but known bugs or vulnerabilities",
             "Only a recognized genuine set of executables, scripts, files, and/or objects have been loaded. However the Verifier cannot vouch for a subset of these due to known bugs or other known vulnerabilities."),
        Text(33, "unrecognized run-time",
             "Runtime memory includes executables, scripts, files, and/or objects which are not recognized."),
        Text(96, "contraindicated run-time",
             "Runtime memory includes executables, scripts, files, and/or object which are contraindicated."),
        Text(99, "cryptographic validation failed",
             "Cryptographic validation of the Evidence has failed.")},
       {Text(2, "all recognized and approved",
             "Only a recognized set of approved files are found."),
        Text(32, "unrecognized item(s) found",
             "The file system includes unrecognized executables, scripts, or files."),
        Text(96, "contraindicated item(s) found",
             "The file system includes contraindicated executables, scripts, or files."),
        Text(99, "cryptographic validation failed",
             "Cryptographic validation of the Evidence has failed.")},
       {Text(2, "genuine",
             "An Attester has passed its hardware and/or firmware verifications needed to demonstrate that these are genuine/supported."),
        Text(32, "genuine but known bugs or vulnerabilities",
             "An Attester contains only genuine/supported hardware and/or firmware, but there are known security vulnerabilities."),
        Text(96, "genuine but contraindicated",
             "Attester hardware and/or firmware is recognized, but its trustworthiness is contraindicated."),
        Text(97, "unrecognized",
             "A Verifier does not recognize an Attester's hardware or firmware, but it should be recognized."),
        Text(99, "cryptographic validation failed",
             "Cryptographic validation of the Evidence has failed.")},
       {Text(2, "recognized and not compromised",
             "The Attesting Environment is recognized, and the associated instance of the Attester is not known to be compromised."),
        Text(96, "recognized but not trustworthy",
             "The Attesting Environment is recognized, but its unique private key indicates a device which is not trustworthy."),
        Text(97, "not recognized",
             "The Attesting Environment is not recognized; however the Verifier believes it should be."),
        Text(99, "cryptographic validation failed",
             "Cryptographic validation of the Evidence has failed.")},
       {Text(-1, "verifier malfunction",
             "A verifier malfunction occurred during the Verifier's appraisal processing."),
        Text(0, "no claim being made",
             "The Evidence received is insufficient to make a conclusion."),
        Text(1, "unexpected evidence",
             "The Evidence received contains unexpected elements which the Verifier is unable to parse.")},
       {Text(2, "memory encryption",
             "the Attester's executing Target Environment and Attesting Environments are encrypted and within Trusted Execution Environment(s) opaque to the operating system, virtual machine manager, and peer applications."),
        Text(32, "memory isolation",
             "the Attester's executing Target Environment and Attesting Environments are inaccessible from any other parallel application or Guest VM running on the Attester's physical device."),
        Text(96, "visible",
             "The Verifier has concluded that in memory objects are unacceptably visible within the physical host that supports the Attester."),
        Text(99, "cryptographic validation failed",
             "Cryptographic validation of the Evidence has failed.")},
       {Text(2, "from attesters in the affirming tier",
             "All essential Attester source data objects have been provided by other Attester(s) whose most recent appraisal(s) had both no Trustworthiness Claims of \"0\" where the current Trustworthiness Claim is \"Affirming\", as well as no \"Warning\" or \"Contraindicated\" Trustworthiness Claims."),
        Text(32, "from unattested sources or attesters in the warning tier",
             "Attester source data objects come from unattested sources, or attested sources with \"Warning\" type Trustworthiness Claims"),
        Text(96, "from attesters in the contraindicated tier",
             "Attester source data objects come from contraindicated sources."),
        Text(99, "cryptographic validation failed",
             "Cryptographic validation of the Evidence has failed.")},
       {Text(2, "encrypted secrets with HW-backed keys",
             "the Attester encrypts all secrets in persistent storage via using keys which are never visible outside an HSM or the Trusted Execution Environment hardware."),
        Text(32, "encrypted secrets with non HW-backed keys",
             "the Attester encrypts all persistently stored secrets, but without using hardware backed keys."),
        Text(96, "unencrypted secrets",
             "There are persistent secrets which are stored unencrypted in an Attester."),
        Text(99, "cryptographic validation failed",
             "Cryptographic validation of the Evidence has failed.")} >>

noneDetails == detailsTexts[6]

\* the maps the as...Details methods pass to detailsPrinter: every map but
\* noneDetails
CategoryTables == (1..9) \ {6}

Described(text) == [panic |-> FALSE, text |-> text]
DescribePanic == [panic |-> TRUE, text |-> ""]

noneToString(tc, short) ==
    IF \E s \in noneDetails : s.claim = tc
    THEN LET s == CHOOSE s \in noneDetails : s.claim = tc
         IN  Described(IF short THEN s.short ELSE s.long)
    ELSE DescribePanic

detailsPrinter_SkipNone(o, dm, short) ==
    IF ~ \E s \in dm : s.claim = o
    THEN Described("unknown code-point " \o ToString(o))
    ELSE LET s == CHOOSE s \in dm : s.claim = o
         IN  Described(IF short THEN s.short ELSE s.long)

detailsPrinter(o, dm, short) ==
    IF IsNone(o) THEN noneToString(o, short)
    ELSE IF ~ \E s \in dm : s.claim = o
    THEN Described("unknown code-point " \o ToString(o))
    ELSE LET s == CHOOSE s \in dm : s.claim = o
         IN  Described(IF short THEN s.short ELSE s.long)

\* one of the as...Details methods on the claim
DoDetailsPrinter ==
    /\ \E dm \in CategoryTables, short \in BOOLEAN :
          last' = [op |-> "detailsPrinter", dm |-> dm, short |-> short,
                   panic |-> detailsPrinter(claim, detailsTexts[dm], short).panic,
                   text |-> detailsPrinter(claim, detailsTexts[dm], short).text]
    /\ UNCHANGED <<claim, ar, wire>>

DetailsInit ==
    claim \in Int8 /\ ar = ZeroAttestationResult /\ wire = NoData /\ last = NoCall
DetailsNext == DoDetailsPrinter
SpecDetails == DetailsInit /\ [][DetailsNext]_vars

\* C27: describing a claim never fails, for any claim value, category and
\* form: -1, 0 and 1 get the text of the none map whatever the category, a
\* code of the category's map gets that map's text, and any other value gets
\* "unknown code-point <n>".
FormOf(s, short) == IF short THEN s.short ELSE s.long
DescriptionTotal ==
    last.op = "detailsPrinter" =>
        /\ ~last.panic
        /\ CASE claim \in {-1, 0, 1} ->
                   \E s \in noneDetails :
                       s.claim = claim /\ last.text = FormOf(s, last.short)
             [] claim \notin {-1, 0, 1}
                  /\ (\E s \in detailsTexts[last.dm] : s.claim = claim) ->
                   \E s \in detailsTexts[last.dm] :
                       s.claim = claim /\ last.text = FormOf(s, last.short)
             [] OTHER -> last.text = "unknown code-point " \o ToString(claim)

DescriptionTotalWitness ==
    /\ last.op = "detailsPrinter"
    /\ claim = -2
    /\ ~last.panic
    /\ last.text = "unknown code-point -2"

\* C30: the value a selected parser returns on success fits the field it is
\* for: in a call of populateStructFromMap on AttestationResult, Appraisal or
\* VerifierIdentity, every claim of the map that names a field and parses
\* without error has a type convertible to the field's type, and the call
\* does not panic in the assignment.
ParsedFor(f) == ParserOf(last.T, f.tagSpec.Name, wire.doc.m[f.tagSpec.Name], last.ord)
Misfits ==
    {f \in Range(TaggedFields(last.T, "")) :
        /\ f.tagSpec.Name \in DOMAIN wire.doc.m
        /\ ParsedFor(f).err = ""
        /\ ~Convertible(ParsedFor(f).type, f.type)}
ParserResultsFit ==
    last.op = "populateStructFromMap" => ~last.panic /\ Misfits = {}

====
